---- MODULE Spec2Model ----
(***************************************************************************)
(* Model of the Supervisor Agent application (agents/supervisor/code/app): *)
(* the AgentService session table (services.py), the HTTP router           *)
(* invoke_agent and the WebSocket endpoint (main.py).                      *)
(***************************************************************************)
EXTENDS Integers, Sequences, FiniteSets, TLC

(***************************************************************************)
(* Bounds of the model.                                                    *)
(***************************************************************************)
\* number of service / router entry calls explored in one behaviour
MaxCalls == 3
\* number of HTTP requests (WebSocket messages) received in one behaviour
MaxRequests == 2
\* number of events the backend yields in one streaming turn
MaxEvents == 2
\* conversation_window_size of the settings (config.py:22 defaults it to 20)
WindowSize == 2

None == "None"
\* threads of the process; Workers are the ones the larger specifications run
Threads == {"t1", "t2", "t3"}
Workers == {"t1", "t2"}
\* the thread (client) the single-client specifications follow
Client == "t1"
SessionIds == {"s1", "s2"}
ActorIds == {None, "u1"}

VARIABLES
    settings,    \* AgentService.settings (Settings, loaded once)
    toolCall,    \* the last call of the retrieve tool: its input, what it passed on
    app,         \* main.py: the globals _agent_service and _settings (set or
                 \* None) and the position of the lifespan of the application
    agents,      \* AgentService._agents: session id -> agent instance
    lock,        \* AgentService._lock: the thread holding it, or None
    instances,   \* every Agent constructed so far; the index is its identity
    window,      \* per instance: the turns its conversation window holds
    appended,    \* per instance: every turn ever appended (history variable)
    removed,     \* instances deleted from the table by cleanup_session
    lastRet,     \* per session id: instance returned since the last evict, or 0
    pc,          \* per thread: position in the operation it runs
    op,          \* per thread: the entry point it runs
    arg,         \* per thread: the arguments of the call
    agentRef,    \* per thread: the local variable `agent` (0: not assigned)
    ret,         \* per thread: value returned or exception raised
    seen,        \* per thread: history the backend was invoked with
    backendCalls,\* per thread: backend invocations made by the current call
    calls,       \* number of entry calls (requests) made so far
    req,         \* per thread: the HTTP request / WebSocket message it serves
    resp,        \* per thread: the response (or frame) sent to the client
    conn,        \* per thread: the WebSocket connection it serves
    generated,   \* number of uuid4() identifiers generated so far
    produced,    \* per thread: events agent.stream_async has yielded this turn
    frames       \* per thread: what the client of the current request was sent

svcVars == <<settings, toolCall, app, agents, lock, instances, window, appended, removed, lastRet>>
thrVars == <<pc, op, arg, agentRef, ret, seen, backendCalls>>
thrVarsButPc == <<op, arg, agentRef, ret, seen, backendCalls>>
strmVars == <<produced, frames>>
ioVars == <<req, resp, conn, generated, produced, frames>>
vars == <<settings, toolCall, app, agents, lock, instances, window, appended, removed, lastRet,
          pc, op, arg, agentRef, ret, seen, backendCalls, calls,
          req, resp, conn, generated, produced, frames>>

(***************************************************************************)
(* Settings (config.py) and small helpers.                                 *)
(***************************************************************************)
\* Python truthiness of an Optional[str]: None and "" are falsy
Falsy(x) == x = None \/ x = ""

\* the settings the process may be started with: in-memory sessions, or
\* AgentCore Memory sessions with or without the memory id they require
SettingsSet ==
    {[session_mode |-> m[1], agentcore_memory_id |-> m[2],
      conversation_window_size |-> WindowSize, model_id |-> "haiku"] :
        m \in {<<"in_memory", None>>, <<"agentcore_memory", None>>,
               <<"agentcore_memory", "mem">>}}

Instances == 1..Len(instances)
NoCall == [called |-> FALSE]

\* what a call gives: `value` is an object it returned, `result` a dict it
\* returned; a call that returned None or raised has neither
Ok(v) == [raised |-> None, value |-> v]
OkDict(d) == [raised |-> None, result |-> d]
Raise(e) == [raised |-> e]
NoResult == [raised |-> None]
NoArg == [session_id |-> None, actor_id |-> None, prompt |-> <<>>]
NoReq == [endpoint |-> None]
NoResp == [status |-> 0, type |-> None, session_id |-> None, error |-> None]
NoConn == [state |-> "closed"]

Last(n, s) == IF Len(s) <= n THEN s ELSE SubSeq(s, Len(s) - n + 1, Len(s))

(***************************************************************************)
(* ConversationWindow: the SlidingWindowConversationManager the agent is   *)
(* built with (services.py:98) is library code; its behaviour is taken     *)
(* from the specification, section 4.2.                                    *)
(***************************************************************************)
\* append(turn): add the turn, then drop oldest turns until count == N
AppendKeepOldest(w, turn, N) ==
    LET a == Append(w, turn) IN IF Len(a) > N THEN SubSeq(a, 1, N) ELSE a
AppendTurn(w, turn, N) == Last(N, Append(w, turn))

\* snapshot(): the turns the window holds, oldest first
Snapshot(i) == window[i]

\* the history a turn hands to the backend: the window after the prompt
\* has been appended
HistoryBeforeAppend(w, turn, N) == w
HistoryForBackend(w, turn, N) == AppendTurn(w, turn, N)

Turn(role, content, i) == [role |-> role, content |-> content, ts |-> Len(appended[i]) + 1]

(***************************************************************************)
(* AgentService.__init__                                                   *)
(***************************************************************************)
\* main.py:29-30, 59-60: the globals before startup and once startup has
\* constructed the settings and the service
NotStarted == [agent_service |-> FALSE, settings |-> FALSE, lifespan |-> "created"]
Started == [agent_service |-> TRUE, settings |-> TRUE, lifespan |-> "running"]

\* the state AgentService.__init__ leaves, in an application in state a
InitWith(a) ==
    /\ settings \in SettingsSet
    /\ toolCall = NoCall
    /\ app = a
    /\ agents = << >>
    /\ lock = None
    /\ instances = << >>
    /\ window = << >>
    /\ appended = << >>
    /\ removed = {}
    /\ lastRet = [s \in SessionIds |-> 0]
    /\ pc = [t \in Threads |-> "idle"]
    /\ op = [t \in Threads |-> None]
    /\ arg = [t \in Threads |-> NoArg]
    /\ agentRef = [t \in Threads |-> 0]
    /\ ret = [t \in Threads |-> NoResult]
    /\ seen = [t \in Threads |-> << >>]
    /\ backendCalls = [t \in Threads |-> 0]
    /\ calls = 0
    /\ req = [t \in Threads |-> NoReq]
    /\ resp = [t \in Threads |-> NoResp]
    /\ conn = [t \in Threads |-> NoConn]
    /\ generated = 0
    /\ produced = [t \in Threads |-> << >>]
    /\ frames = [t \in Threads |-> << >>]

\* the service of an application that has started
Init == InitWith(Started)

\* a call of a service method begins: its locals are fresh
Start(t, o, a, at) ==
    /\ op' = [op EXCEPT ![t] = o]
    /\ arg' = [arg EXCEPT ![t] = a]
    /\ pc' = [pc EXCEPT ![t] = at]
    /\ agentRef' = [agentRef EXCEPT ![t] = 0]
    /\ ret' = [ret EXCEPT ![t] = NoResult]
    /\ seen' = [seen EXCEPT ![t] = << >>]
    /\ backendCalls' = [backendCalls EXCEPT ![t] = 0]
    /\ UNCHANGED svcVars

\* a thread that serves no request calls a service method directly
Enter(t, o, a, at) ==
    /\ pc[t] \in {"idle", "done", "raised"}
    /\ req[t] = NoReq
    /\ conn[t] = NoConn
    /\ calls < MaxCalls
    /\ calls' = calls + 1
    /\ Start(t, o, a, at)
    /\ produced' = [produced EXCEPT ![t] = << >>]
    /\ frames' = [frames EXCEPT ![t] = << >>]
    /\ UNCHANGED <<req, resp, conn, generated>>

\* `with self._lock:` is entered only while no thread holds the lock
LockIgnored == TRUE
LockFree == lock = None

Acquire(t, from, to) ==
    /\ UNCHANGED ioVars
    /\ pc[t] = from
    /\ LockFree
    /\ lock' = t
    /\ pc' = [pc EXCEPT ![t] = to]
    /\ UNCHANGED <<settings, toolCall, app, agents, instances, window, appended, removed, lastRet,
                   op, arg, agentRef, ret, seen, backendCalls, calls>>

(***************************************************************************)
(* AgentService._create_session_manager                                    *)
(***************************************************************************)
\* line 53: actor_id or "default_user"
ActorGiven(a) == a
ActorOrDefault(a) == IF Falsy(a) THEN "default_user" ELSE a

CreateSessionManagerUnchecked(s, a) ==
    IF settings.session_mode = "agentcore_memory"
    THEN Ok([memory_id |-> settings.agentcore_memory_id,
             session_id |-> s,
             actor_id |-> ActorOrDefault(a)])
    ELSE Ok(None)
CreateSessionManager(s, a) ==
    IF settings.session_mode = "agentcore_memory"
    THEN IF Falsy(settings.agentcore_memory_id)
         THEN Raise("ValueError")
         ELSE Ok([memory_id |-> settings.agentcore_memory_id,
                  session_id |-> s,
                  actor_id |-> ActorOrDefault(a)])
    ELSE Ok(None)

\* SlidingWindowConversationManager(window_size=settings.conversation_window_size)
ConversationManagerOversized == [window_size |-> settings.conversation_window_size + 1]
ConversationManager == [window_size |-> settings.conversation_window_size]

(***************************************************************************)
(* AgentService.get_or_create_agent                                        *)
(***************************************************************************)
\* the actor id is read only when an AgentCore Memory session manager is built
ActorInputs == IF settings.session_mode = "agentcore_memory" THEN ActorIds ELSE {None}

CallGetOrCreate(t) ==
    \E s \in SessionIds, a \in ActorInputs :
        Enter(t, "get_or_create_agent",
              [session_id |-> s, actor_id |-> a, prompt |-> <<>>], "goc_lock")

\* line 82: `if session_id not in self._agents`
AlwaysCreate(s) == TRUE
NeedsCreate(s) == s \notin DOMAIN agents

\* lines 76-82: the lock is taken and the table is tested for the session id
GocAcquire(t) ==
    Acquire(t, "goc_lock",
            IF NeedsCreate(arg[t].session_id) THEN "goc_create" ELSE "goc_return")

\* leaving the `with` block by an exception releases the lock
HeldAfterRaise(t) == t
LockOnRaise(t) == None

GocRaise(t, e) ==
    /\ UNCHANGED ioVars
    /\ lock' = LockOnRaise(t)
    /\ ret' = [ret EXCEPT ![t] = Raise(e)]
    /\ pc' = [pc EXCEPT ![t] = "raised"]
    /\ UNCHANGED <<settings, toolCall, app, agents, instances, window, appended, removed, lastRet,
                   op, arg, agentRef, seen, backendCalls, calls>>

\* the holder of the lock once get_or_create_agent has left its `with`
\* block: the block ends with the method, before the caller goes on
HeldByCaller(t) == IF op[t] = "get_or_create_agent" THEN None ELSE t
LockOnReturn(t) == None

\* line 127: `return self._agents[session_id]`, leaving the `with` block;
\* tbl is the table the return statement reads
GocReturnFrom(t, tbl) ==
    /\ UNCHANGED ioVars
    /\ LET s == arg[t].session_id IN
       IF s \in DOMAIN tbl
       THEN /\ agentRef' = [agentRef EXCEPT ![t] = tbl[s]]
            /\ lastRet' = [lastRet EXCEPT ![s] = tbl[s]]
            /\ ret' = [ret EXCEPT ![t] = Ok(tbl[s])]
            /\ pc' = [pc EXCEPT ![t] = IF op[t] = "get_or_create_agent"
                                       THEN "done" ELSE "turn_start"]
       ELSE /\ ret' = [ret EXCEPT ![t] = Raise("KeyError")]
            /\ pc' = [pc EXCEPT ![t] = "raised"]
            /\ UNCHANGED <<agentRef, lastRet>>
    /\ lock' = LockOnReturn(t)
    /\ UNCHANGED <<settings, toolCall, app, op, arg, seen, backendCalls, calls>>

\* self._agents[session_id] = Agent(**agent_kwargs)
RegisterFirst(s, i) == (s :> 1) @@ agents
Register(s, i) == (s :> i) @@ agents

\* lines 83-127: build model, conversation manager, session manager and
\* agent, register the agent and return it
GocCreate(t) ==
    /\ pc[t] = "goc_create"
    /\ LET s == arg[t].session_id
           sm == CreateSessionManager(s, arg[t].actor_id)
           i == Len(instances) + 1
       IN IF sm.raised # None
          THEN GocRaise(t, sm.raised)
          ELSE \/ /\ instances' = Append(instances,
                         [session_id |-> s,
                          session_manager |-> sm.value,
                          conversation_manager |-> ConversationManager])
                  /\ window' = Append(window, << >>)
                  /\ appended' = Append(appended, << >>)
                  /\ agents' = Register(s, i)
                  /\ GocReturnFrom(t, agents')
                  /\ UNCHANGED removed
               \* BedrockModel / session manager / Agent constructor fails
               \/ GocRaise(t, "ConstructionError")

\* lines 82, 127: the session id is registered; its agent is returned
GocReturn(t) ==
    /\ pc[t] = "goc_return"
    /\ GocReturnFrom(t, agents)
    /\ UNCHANGED <<agents, instances, window, appended, removed>>

(***************************************************************************)
(* AgentService.process_message / process_message_stream: the turn.        *)
(* agent(prompt) and agent.stream_async(prompt) run inside the agent       *)
(* library; the order of their steps is the specification's, section 4.3.  *)
(***************************************************************************)
ServicePrompts == {<<"a">>}

CallProcessMessage(t) ==
    \E s \in SessionIds, a \in ActorInputs, p \in ServicePrompts :
        Enter(t, "process_message",
              [session_id |-> s, actor_id |-> a, prompt |-> p], "goc_lock")

CallProcessMessageStream(t) ==
    \E s \in SessionIds, a \in ActorInputs, p \in ServicePrompts :
        Enter(t, "process_message_stream",
              [session_id |-> s, actor_id |-> a, prompt |-> p], "goc_lock")

WindowSizeOf(i) == instances[i].conversation_manager.window_size

\* a turn is appended to the window of instance i
AppendTo(i, turn) ==
    /\ window' = [window EXCEPT ![i] = AppendTurn(@, turn, WindowSizeOf(i))]
    /\ appended' = [appended EXCEPT ![i] = Append(@, turn)]

\* the backend is invoked by thread t with the history that follows `turn`
InvokeBackend(t, i, turn) ==
    /\ seen' = [seen EXCEPT ![t] = HistoryForBackend(window[i], turn, WindowSizeOf(i))]
    /\ backendCalls' = [backendCalls EXCEPT ![t] = @ + 1]

\* services.py:150 / :180: the agent is called with the prompt
TurnStart(t) ==
    /\ UNCHANGED ioVars
    /\ pc[t] = "turn_start"
    /\ LET i == agentRef[t]
           turn == Turn("user", arg[t].prompt, i)
       IN /\ AppendTo(i, turn)
          /\ InvokeBackend(t, i, turn)
    /\ pc' = [pc EXCEPT ![t] = "turn_backend"]
    /\ UNCHANGED <<settings, toolCall, app, agents, lock, instances, removed, lastRet,
                   op, arg, agentRef, ret, calls>>

\* while the backend call is in progress a tool (retrieve) is used; its
\* result is appended as a tool turn
TurnTool(t) ==
    /\ UNCHANGED ioVars
    /\ pc[t] = "turn_backend"
    /\ AppendTo(agentRef[t], Turn("tool", arg[t].prompt, agentRef[t]))
    /\ pc' = [pc EXCEPT ![t] = "turn_backend_tool"]
    /\ UNCHANGED <<settings, toolCall, app, agents, lock, instances, removed, lastRet,
                   op, arg, agentRef, ret, seen, backendCalls, calls>>

\* the backend completes: the assistant's output is appended and the call
\* returns (services.py:152-157)
TurnComplete(t) ==
    /\ UNCHANGED ioVars
    /\ pc[t] \in {"turn_backend", "turn_backend_tool"}
    /\ AppendTo(agentRef[t], Turn("assistant", arg[t].prompt, agentRef[t]))
    /\ ret' = [ret EXCEPT ![t] = OkDict([output |-> arg[t].prompt,
                                         session_id |-> arg[t].session_id,
                                         model |-> settings.model_id])]
    /\ pc' = [pc EXCEPT ![t] = "done"]
    /\ UNCHANGED <<settings, toolCall, app, agents, lock, instances, removed, lastRet,
                   op, arg, agentRef, seen, backendCalls, calls>>

\* the table once the exception of the backend has left the method: no
\* handler of the service catches it, the table is not touched
TableWithout(s) == [k \in DOMAIN agents \ {s} |-> agents[k]]
TableAfterFailure(s) == agents

\* the backend fails: the exception leaves process_message
TurnFail(t) ==
    /\ UNCHANGED ioVars
    /\ pc[t] \in {"turn_backend", "turn_backend_tool"}
    /\ ret' = [ret EXCEPT ![t] = Raise("BackendError")]
    /\ pc' = [pc EXCEPT ![t] = "raised"]
    /\ agents' = TableAfterFailure(arg[t].session_id)
    /\ UNCHANGED <<settings, toolCall, app, lock, instances, window, appended,
                   removed, lastRet, op, arg, agentRef, seen, backendCalls, calls>>

(***************************************************************************)
(* AgentService.process_message_stream: the events of agent.stream_async   *)
(* are filtered, stamped and yielded (services.py:180-227).  A Python dict *)
(* is a record; a key the dict lacks is a field the record lacks.          *)
(***************************************************************************)
\* the events the backend may yield, one for each way through the filter
BackendEvents ==
    {[data |-> "txt"],
     [init_event_loop |-> "True"],
     [start_event_loop |-> "True"],
     [complete |-> "True"],
     [complete |-> "False"],
     [force_stop |-> "True", force_stop_reason |-> "limit"],
     [force_stop |-> "True"],
     [current_tool_use |-> [name |-> "retrieve", toolUseId |-> "tu1"]],
     [current_tool_use |-> [name |-> "", toolUseId |-> "tu1"]],
     [message |-> [role |-> "assistant"]],
     [result |-> "res"],
     [data |-> "txt", session_id |-> "evil", timestamp |-> "never", model |-> "other"],
     [data |-> "obj"]}

Has(e, k) == k \in DOMAIN e
\* Python truthiness of a value of an event
Truthy(v) == v \notin {"False", "", None}
\* event.get(k, False)
Flag(e, k) == Has(e, k) /\ Truthy(e[k])
\* the record with the one field k, or the empty record
Field(cond, k, v) == IF cond THEN [x \in {k} |-> v] ELSE << >>

\* lines 184-186
PickData(e) == Field(Has(e, "data"), "data", IF Has(e, "data") THEN e.data ELSE None)

\* lines 188-197
PickLifecycle(e) ==
    Field(Flag(e, "init_event_loop"), "init_event_loop", "True")
    @@ Field(Flag(e, "start_event_loop"), "start_event_loop", "True")
    @@ Field(Flag(e, "complete"), "complete", "True")
    @@ Field(Flag(e, "force_stop"), "force_stop", "True")
    @@ Field(Flag(e, "force_stop"), "force_stop_reason",
             IF Has(e, "force_stop_reason") THEN e.force_stop_reason ELSE "unknown")

\* lines 199-205 (every current_tool_use of BackendEvents is a dict)
PickTool(e) ==
    IF Has(e, "current_tool_use")
    THEN Field(Truthy(e.current_tool_use.name), "tool_name", e.current_tool_use.name)
         @@ Field(Truthy(e.current_tool_use.toolUseId), "tool_use_id",
                  e.current_tool_use.toolUseId)
    ELSE << >>

\* lines 207-211
PickMessage(e) ==
    IF Has(e, "message")
    THEN Field(Truthy(e.message.role), "message_role", e.message.role)
    ELSE << >>

\* lines 213-215
PickResult(e) == Field(Has(e, "result"), "result", IF Has(e, "result") THEN e.result ELSE None)

\* lines 182-215: filtered_event before it is stamped
Picked(e) == PickData(e) @@ PickLifecycle(e) @@ PickTool(e) @@ PickMessage(e) @@ PickResult(e)

\* datetime.now(timezone.utc).isoformat()
Now == "now"

\* lines 217-222: filtered_event.update({...}); update overwrites
Unstamped(f, sid) == f
Stamped(f, sid) ==
    [session_id |-> sid, timestamp |-> Now, model |-> settings.model_id] @@ f

MeaningfulKeys ==
    {"data", "init_event_loop", "start_event_loop", "complete", "force_stop",
     "tool_name", "result"}

\* lines 224-227: only events with meaningful content are yielded
YieldsAll(f) == TRUE
Yields(f) == DOMAIN f \cap MeaningfulKeys # {}

\* the event process_message_stream makes of backend event e
Filtered(e, sid) == Stamped(Picked(e), sid)

(***************************************************************************)
(* AgentService.cleanup_session                                            *)
(***************************************************************************)
CallCleanup(t) ==
    \E s \in SessionIds :
        Enter(t, "cleanup_session",
              [session_id |-> s, actor_id |-> None, prompt |-> <<>>], "cs_lock")

CsAcquire(t) == Acquire(t, "cs_lock", "cs_body")

\* del self._agents[session_id]
KeepEntry(s) == agents
UnregisterAll(s) == << >>
Unregister(s) == [k \in DOMAIN agents \ {s} |-> agents[k]]

\* line 237: `if session_id in self._agents`
DeleteUnguarded(s) == TRUE
IsRegistered(s) == s \in DOMAIN agents

\* lines 236-239; `del` of a key the table lacks raises KeyError
CsBody(t) ==
    /\ UNCHANGED ioVars
    /\ pc[t] = "cs_body"
    /\ LET s == arg[t].session_id IN
       IF ~IsRegistered(s)
       THEN /\ UNCHANGED <<agents, removed, lastRet>>
            /\ ret' = [ret EXCEPT ![t] = NoResult]
            /\ pc' = [pc EXCEPT ![t] = "done"]
       ELSE IF s \in DOMAIN agents
       THEN /\ agents' = Unregister(s)
            /\ removed' = removed \cup {agents[s]}
            /\ lastRet' = [lastRet EXCEPT ![s] = 0]
            /\ ret' = [ret EXCEPT ![t] = NoResult]
            /\ pc' = [pc EXCEPT ![t] = "done"]
       ELSE /\ UNCHANGED <<agents, removed, lastRet>>
            /\ ret' = [ret EXCEPT ![t] = Raise("KeyError")]
            /\ pc' = [pc EXCEPT ![t] = "raised"]
    /\ lock' = None
    /\ UNCHANGED <<settings, toolCall, app, instances, window, appended,
                   op, arg, agentRef, seen, backendCalls, calls>>

(***************************************************************************)
(* AgentService.get_session_info                                           *)
(***************************************************************************)
CallSessionInfo(t) == Enter(t, "get_session_info", NoArg, "gi_lock")

GiAcquire(t) == Acquire(t, "gi_lock", "gi_body")

\* len(self._agents)
SessionCountEver == Len(instances)
SessionCount == Cardinality(DOMAIN agents)

\* list(self._agents.keys()): the keys in the order they were inserted, which
\* is the order of the instances they were registered with
RECURSIVE KeysOf(_)
KeysOf(S) ==
    IF S = {} THEN << >>
    ELSE LET s == CHOOSE x \in S : \A y \in S : agents[x] <= agents[y]
         IN <<s>> \o KeysOf(S \ {s})
SessionIdList == KeysOf(DOMAIN agents)

GiBody(t) ==
    /\ UNCHANGED ioVars
    /\ pc[t] = "gi_body"
    /\ lock' = None
    /\ ret' = [ret EXCEPT ![t] = OkDict([active_sessions |-> SessionCount,
                                         session_ids |-> SessionIdList])]
    /\ pc' = [pc EXCEPT ![t] = "done"]
    /\ UNCHANGED <<settings, toolCall, app, agents, instances, window, appended, removed, lastRet,
                   op, arg, agentRef, seen, backendCalls, calls>>

(***************************************************************************)
(* Specifications of the service: each takes the entry points it is about. *)
(***************************************************************************)
GocStep(t) == GocAcquire(t) \/ GocCreate(t) \/ GocReturn(t)
TurnStep(t) == TurnStart(t) \/ TurnTool(t) \/ TurnComplete(t) \/ TurnFail(t)
CsStep(t) == CsAcquire(t) \/ CsBody(t)
GiStep(t) == GiAcquire(t) \/ GiBody(t)
\* the operations on the table of one thread
TableStep(t) == GocStep(t) \/ CsStep(t) \/ GiStep(t)

\* the session table: get_or_create_agent, cleanup_session, get_session_info
Next ==
    \E t \in Threads :
        \/ CallGetOrCreate(t) \/ CallCleanup(t) \/ CallSessionInfo(t)
        \/ GocStep(t) \/ CsStep(t) \/ GiStep(t)

Spec == Init /\ [][Next]_vars

\* the session table under two threads; a thread that can enter or leave
\* a `with self._lock` block does so
NextTable ==
    \E t \in Workers :
        \/ CallGetOrCreate(t) \/ CallCleanup(t) \/ CallSessionInfo(t)
        \/ TableStep(t)

SpecTable ==
    /\ Init /\ [][NextTable]_vars
    /\ \A t \in Workers : WF_pc(TableStep(t))

\* the default settings (config.py:21): sessions are kept in memory
InitInMemory == Init /\ settings.session_mode = "in_memory"

\* get_or_create_agent calls of one thread race with cleanup_session calls
\* of another
NextRace ==
    \/ CallGetOrCreate(Client) \/ GocStep(Client)
    \/ \E t \in Workers \ {Client} : CallCleanup(t) \/ CsStep(t)

SpecRace == InitInMemory /\ [][NextRace]_vars

\* turns against eviction: process_message, get_or_create_agent, cleanup_session
NextEvict ==
    \E t \in Workers :
        \/ CallProcessMessage(t) \/ CallGetOrCreate(t) \/ CallCleanup(t)
        \/ GocStep(t) \/ TurnStep(t) \/ CsStep(t)

SpecEvict == InitInMemory /\ [][NextEvict]_vars

\* turns of one thread against the table operations of another: nothing
\* makes the backend answer, while a thread that can enter or leave a
\* `with self._lock` block does so
NextBlocked ==
    \/ CallProcessMessage(Client) \/ CallProcessMessageStream(Client)
    \/ GocStep(Client) \/ TurnStep(Client)
    \/ \E t \in Workers \ {Client} :
        \/ CallGetOrCreate(t) \/ CallCleanup(t) \/ CallSessionInfo(t)
        \/ TableStep(t)

SpecBlocked ==
    /\ InitInMemory /\ [][NextBlocked]_vars
    /\ \A t \in Workers : WF_pc(TableStep(t))

\* turns in both modes: process_message, process_message_stream
NextTurns ==
    \E t \in Workers :
        \/ CallProcessMessage(t) \/ CallProcessMessageStream(t)
        \/ GocStep(t) \/ TurnStep(t)

SpecTurns == InitInMemory /\ [][NextTurns]_vars

(***************************************************************************)
(* main.py: invoke_agent, the POST /invocations handler.                   *)
(***************************************************************************)
\* characters str.strip() removes, among those the prompts are made of
Whitespace == {" ", "\n"}
HttpPrompts == {<< >>, <<" ", "\n">>, <<" ", "a">>}
\* X-Amzn-Bedrock-AgentCore-Runtime-Session-Id: absent, empty or set
HeaderValues == {None, "", "h1"}
\* InvocationRequest.session_id: absent, empty or set
PayloadSessionIds == {None, "", "s1"}
\* Accept and X-Stream headers of the requests the larger specifications
\* send; a header is the sequence of the pieces `in` can tell apart, an
\* absent Accept header is read as "" (line 182)
AcceptValues == {<<"*/*">>, <<"text/event-stream">>}
XStreamValues == {None, "true"}
\* every kind of Accept and X-Stream header
AcceptHeaders ==
    {<< >>, <<"*/*">>, <<"application/json">>,
     <<"text/event-stream">>, <<"Text/Event-Stream">>,
     <<"application/json", ", ", "text/event-stream", ";q=0.9">>,
     <<"application/x-ndjson">>, <<"APPLICATION/X-NDJSON">>}
XStreamHeaders == {None, "", "true", "True", "false", "1"}

RECURSIVE LStrip(_)
LStrip(p) == IF p # << >> /\ Head(p) \in Whitespace THEN LStrip(Tail(p)) ELSE p
RECURSIVE RStrip(_)
RStrip(p) ==
    IF p # << >> /\ p[Len(p)] \in Whitespace
    THEN RStrip(SubSeq(p, 1, Len(p) - 1)) ELSE p
\* str.strip()
Strip(p) == RStrip(LStrip(p))

\* line 165: `not request.prompt or not request.prompt.strip()`
PromptRejectedUnstripped(p) == p = << >>
PromptNeverRejected(p) == FALSE
PromptRejected(p) == p = << >> \/ Strip(p) = << >>

\* Python `a or b` on Optional[str]
PyOr(a, b) == IF Falsy(a) THEN b ELSE a

\* str(uuid.uuid4()) for the n-th identifier generated
UuidOf(n) == "uuid" \o ToString(n)

\* lines 175-179: header or payload or a new uuid
ResolvePayloadFirst(h, b, u) == PyOr(PyOr(b, h), u)
ResolveSessionId(h, b, u) == PyOr(PyOr(h, b), u)

\* str.lower() of a piece of a header
Lower(x) ==
    CASE x = "Text/Event-Stream" -> "text/event-stream"
      [] x = "APPLICATION/X-NDJSON" -> "application/x-ndjson"
      [] x = "True" -> "true"
      [] OTHER -> x
LowerAll(h) == [k \in DOMAIN h |-> Lower(h[k])]

\* `needle in header`
Contains(h, needle) == \E k \in DOMAIN h : h[k] = needle

\* headers.get("x-stream", "")
XStreamOf(x) == IF x = None THEN "" ELSE x

\* lines 182-187: streaming is asked for by Accept or by X-Stream
IsStreamingExact(accept, xstream) ==
    \/ Contains(accept, "text/event-stream")
    \/ Contains(accept, "application/x-ndjson")
    \/ XStreamOf(xstream) = "true"
IsStreaming(accept, xstream) ==
    \/ Contains(LowerAll(accept), "text/event-stream")
    \/ Contains(LowerAll(accept), "application/x-ndjson")
    \/ Lower(XStreamOf(xstream)) = "true"

Response(st, ty, sid, err) ==
    [status |-> st, type |-> ty, session_id |-> sid, error |-> err]

\* lines 235-240: the response of a batch invocation, made of the dict
\* process_message returned
InvocationResponseTruncated(result) ==
    [status |-> 200, type |-> "InvocationResponse", session_id |-> result.session_id,
     error |-> None, output |-> [response |-> SubSeq(result.output, 1, 1)],
     model |-> result.model]
InvocationResponse(result) ==
    [status |-> 200, type |-> "InvocationResponse", session_id |-> result.session_id,
     error |-> None, output |-> [response |-> result.output], model |-> result.model]

\* lines 245-250, exceptions.py:26-37: any other exception is wrapped as an
\* AgentError whose details carry the cause and the session id; its handler
\* answers 500
AgentErrorSwallowed(sid, cause) == Response(200, "InvocationResponse", sid, None)
AgentErrorResponse(sid, cause) == Response(500, "AgentError", sid, cause)

\* json.dumps(event): the text of the event; it raises TypeError for a value
\* JSON cannot encode
Serializable(f) == \A k \in DOMAIN f : f[k] # "obj"
JsonDumps(f) == [json |-> f]

\* line 200: one SSE data line per event
SseData(f) == [sse |-> JsonDumps(f)]

\* lines 207-211: the error event of a stream
ErrorEvent(err, sid) == [error |-> err, session_id |-> sid, timestamp |-> Now]

\* lines 205-212: the error is sent as one more event, the last
OnStreamErrorSilent(fs, err, sid) == fs
OnStreamError(fs, err, sid) == Append(fs, SseData(ErrorEvent(err, sid)))

\* lines 194-200: the events are exhausted and generate_stream returns; it
\* yields nothing more
OnStreamEndMarked(fs) == Append(fs, SseData([done |-> "True"]))
OnStreamEnd(fs) == fs

\* lines 200, 328: the frame of an event is sent when the event arrives
SentFirst(fs, fr) == <<fr>> \o fs
Sent(fs, fr) == Append(fs, fr)

\* lines 202-204: a ValidationError leaves generate_stream
ReraisedAlways(e) == TRUE
Reraised(e) == e = "ValidationError"

\* a request arrives at POST /invocations (lines 135-141) with an Accept
\* header of A and an X-Stream header of X
HttpReceiveOf(t, A, X) ==
    /\ pc[t] \in {"idle", "responded"}
    /\ conn[t] = NoConn
    /\ calls < MaxRequests
    /\ calls' = calls + 1
    /\ \E p \in HttpPrompts, h \in HeaderValues, b \in PayloadSessionIds,
          a \in ActorInputs, acc \in A, xs \in X :
        req' = [req EXCEPT ![t] =
                  [endpoint |-> "invocations", prompt |-> p, header |-> h,
                   payload |-> b, actor_id |-> a, accept |-> acc, xstream |-> xs]]
    /\ pc' = [pc EXCEPT ![t] = "http_recv"]
    /\ resp' = [resp EXCEPT ![t] = NoResp]
    /\ op' = [op EXCEPT ![t] = None]
    /\ arg' = [arg EXCEPT ![t] = NoArg]
    /\ agentRef' = [agentRef EXCEPT ![t] = 0]
    /\ ret' = [ret EXCEPT ![t] = NoResult]
    /\ seen' = [seen EXCEPT ![t] = << >>]
    /\ backendCalls' = [backendCalls EXCEPT ![t] = 0]
    /\ produced' = [produced EXCEPT ![t] = << >>]
    /\ frames' = [frames EXCEPT ![t] = << >>]
    /\ UNCHANGED <<svcVars, conn, generated>>

HttpReceive(t) == HttpReceiveOf(t, AcceptValues, XStreamValues)
\* a request with any Accept and X-Stream header
HttpReceiveAny(t) == HttpReceiveOf(t, AcceptHeaders, XStreamHeaders)

\* what the handler keeps of the request once it has dispatched it
Serving(mode) == [endpoint |-> "invocations", streaming |-> mode]

\* lines 164-198, 228: the prompt is validated, the session id resolved,
\* the mode negotiated and the service method called
HttpHandle(t) ==
    /\ pc[t] = "http_recv"
    /\ LET r == req[t]
           streaming == IsStreaming(r.accept, r.xstream)
           sid == ResolveSessionId(r.header, r.payload, UuidOf(generated + 1))
       IN /\ req' = [req EXCEPT ![t] = Serving(streaming)]
          /\ IF PromptRejected(r.prompt)
             THEN \* raise ValidationError: validation_error_handler answers 400
                  /\ resp' = [resp EXCEPT ![t] =
                                Response(400, "ValidationError", None, "prompt")]
                  /\ pc' = [pc EXCEPT ![t] = "responded"]
                  /\ UNCHANGED <<svcVars, op, arg, agentRef, ret, seen,
                                 backendCalls, generated>>
             ELSE /\ Start(t, IF streaming THEN "process_message_stream"
                                           ELSE "process_message",
                           [session_id |-> sid, actor_id |-> r.actor_id,
                            prompt |-> r.prompt],
                           "goc_lock")
                  /\ generated' = IF sid = UuidOf(generated + 1)
                                  THEN generated + 1 ELSE generated
                  /\ UNCHANGED resp
    /\ UNCHANGED <<calls, conn, strmVars>>

\* the service method has returned or raised: the response is built
\* (lines 205-212, 235-250; exceptions.py agent_error_handler)
HttpRespond(t) ==
    /\ pc[t] \in {"done", "raised"}
    /\ req[t].endpoint = "invocations"
    /\ LET sid == arg[t].session_id
           failed == pc[t] = "raised"
       IN /\ resp' = [resp EXCEPT ![t] =
                  IF req[t].streaming
                  THEN IF failed /\ Reraised(ret[t].raised)
                       THEN Response(200, "Aborted", sid, ret[t].raised)
                       ELSE Response(200, "StreamingResponse", sid, ret[t].raised)
                  ELSE IF ~failed
                       THEN InvocationResponse(ret[t].result)
                       ELSE AgentErrorResponse(sid, ret[t].raised)]
          \* lines 205-212: the error is sent as the final event
          /\ frames' = [frames EXCEPT ![t] =
                  IF req[t].streaming /\ failed /\ ~Reraised(ret[t].raised)
                  THEN OnStreamError(@, ret[t].raised, sid)
                  ELSE IF req[t].streaming /\ ~failed THEN OnStreamEnd(@)
                  ELSE @]
    /\ pc' = [pc EXCEPT ![t] = "responded"]
    \* the handler is over and its locals are gone
    /\ op' = [op EXCEPT ![t] = None]
    /\ arg' = [arg EXCEPT ![t] = NoArg]
    /\ agentRef' = [agentRef EXCEPT ![t] = 0]
    /\ ret' = [ret EXCEPT ![t] = NoResult]
    /\ seen' = [seen EXCEPT ![t] = << >>]
    /\ backendCalls' = [backendCalls EXCEPT ![t] = 0]
    /\ UNCHANGED <<svcVars, calls, req, conn, generated, produced>>

\* Handlers are coroutines of one event loop (agent.py: uvicorn.run(app)):
\* a task keeps the loop until it awaits.  process_message is a blocking
\* call made from `async def invoke_agent`, so a batch request holds the
\* loop until it is answered; a streaming request gives the loop up only
\* while it awaits the next event of agent.stream_async.
OnLoop(u) ==
    \/ pc[u] \in {"http_recv", "ws_connecting", "ws_recv",
                 "goc_lock", "goc_create", "goc_return", "turn_start", "done", "raised"}
    \/ pc[u] \in {"turn_backend", "turn_backend_tool"} /\ op[u] = "process_message"

LoopFree(t) == \A u \in Workers \ {t} : ~OnLoop(u)

NextHttp ==
    \E t \in Workers :
        \/ LoopFree(t) /\ HttpReceive(t)
        \/ LoopFree(t) /\ HttpHandle(t)
        \/ LoopFree(t) /\ HttpRespond(t)
        \/ LoopFree(t) /\ GocStep(t)
        \/ LoopFree(t) /\ TurnStep(t)

SpecHttp == InitInMemory /\ [][NextHttp]_vars

(***************************************************************************)
(* main.py: lifespan, get_settings, get_agent_service and the probes       *)
(* GET /ping and GET /ready.                                               *)
(***************************************************************************)
\* lines 56-62: startup constructs the settings and the service
Startup ==
    /\ app.lifespan = "created"
    /\ app' = Started
    /\ UNCHANGED <<settings, toolCall, agents, lock, instances, window, appended,
                   removed, lastRet, thrVars, calls, ioVars>>

\* lines 64-66: shutdown resets both globals
Shutdown ==
    /\ app.lifespan = "running"
    /\ app' = [agent_service |-> FALSE, settings |-> FALSE, lifespan |-> "finished"]
    /\ UNCHANGED <<settings, toolCall, agents, lock, instances, window, appended,
                   removed, lastRet, thrVars, calls, ioVars>>

\* lines 33-38: get_settings constructs the settings if there are none
GetSettings(a) == [a EXCEPT !.settings = TRUE]

\* lines 43-46: get_agent_service raises unless the service is set
ServiceAssumed == TRUE
ServiceInitialized == app.agent_service

Probes == {"ping", "ready"}

\* models.py:25-30: HealthResponse
HealthResponse(st) ==
    [status |-> 200, type |-> "HealthResponse", session_id |-> None, error |-> None,
     health |-> st]

\* a request arrives at GET /ping or GET /ready
ProbeReceive(t) ==
    /\ pc[t] \in {"idle", "responded"}
    /\ conn[t] = NoConn
    /\ \E e \in Probes : req' = [req EXCEPT ![t] = [endpoint |-> e]]
    /\ resp' = [resp EXCEPT ![t] = NoResp]
    /\ pc' = [pc EXCEPT ![t] = "probe"]
    /\ UNCHANGED <<svcVars, thrVarsButPc, calls, conn, generated, strmVars>>

\* lines 84-120: the dependencies are resolved and the probe answers; the
\* RuntimeError of get_agent_service is answered by generic_exception_handler
\* (exceptions.py:54-65)
ProbeHandle(t) ==
    /\ pc[t] = "probe"
    /\ IF req[t].endpoint = "ping"
       THEN /\ resp' = [resp EXCEPT ![t] = HealthResponse("ok")]
            /\ app' = GetSettings(app)
       ELSE IF ServiceInitialized
       THEN /\ resp' = [resp EXCEPT ![t] = HealthResponse("ready")]
            /\ app' = GetSettings(app)
       ELSE /\ resp' = [resp EXCEPT ![t] =
                          Response(500, "InternalServerError", None, "RuntimeError")]
            /\ UNCHANGED app
    /\ pc' = [pc EXCEPT ![t] = "responded"]
    /\ UNCHANGED <<settings, toolCall, agents, lock, instances, window, appended,
                   removed, lastRet, thrVarsButPc, calls, req, conn, generated, strmVars>>

\* the application from before its startup to after its shutdown
InitProcess == InitWith(NotStarted) /\ settings.session_mode = "in_memory"

NextHealth ==
    \/ Startup \/ Shutdown
    \/ \E t \in Threads : ProbeReceive(t) \/ ProbeHandle(t)

SpecHealth == InitProcess /\ [][NextHealth]_vars

(***************************************************************************)
(* main.py: websocket_endpoint, the /ws handler.                           *)
(***************************************************************************)
\* User-Agent headers, as the pieces `"Session:" in` and split() tell apart:
\* absent, without a session, "... (Session: h2)", "... (Session: )"
UserAgents ==
    {<< >>, <<"AgentRuntime-Client/1.0">>,
     <<"AgentRuntime-Client/1.0 (", "Session:", " ", "h2", ")">>,
     <<"AgentRuntime-Client/1.0 (", "Session:", " ", ")">>}
\* x-amzn-bedrock-agentcore-runtime-session-id and x-session-id headers
WsHeaderValues == {None, "h1"}
XSessionValues == {None, "x1"}

Marks(ua) == {k \in DOMAIN ua : ua[k] = "Session:"}
Min(S) == CHOOSE k \in S : \A j \in S : k <= j

\* user_agent.split("Session:")[1]
SplitSecond(ua) ==
    LET first == Min(Marks(ua))
        later == {k \in Marks(ua) : k > first}
        stop == IF later = {} THEN Len(ua) ELSE Min(later) - 1
    IN SubSeq(ua, first + 1, stop)

RECURSIVE StripSpaces(_)
StripSpaces(x) ==
    IF x # << >> /\ Head(x) = " " THEN StripSpaces(Tail(x))
    ELSE IF x # << >> /\ x[Len(x)] = " " THEN StripSpaces(SubSeq(x, 1, Len(x) - 1))
    ELSE x

RECURSIVE RStripParen(_)
RStripParen(x) ==
    IF x # << >> /\ x[Len(x)] = ")" THEN RStripParen(SubSeq(x, 1, Len(x) - 1)) ELSE x

RECURSIVE Concat(_)
Concat(x) == IF x = << >> THEN "" ELSE Head(x) \o Concat(Tail(x))

\* lines 278-285: the session token of the User-Agent header, or None
UaSession(ua) ==
    IF Marks(ua) # {} THEN Concat(RStripParen(StripSpaces(SplitSecond(ua)))) ELSE None

\* lines 275-293: the session id the headers supply, or a falsy value
HeaderSession(ua, h, x) == PyOr(PyOr(UaSession(ua), h), x)

\* the client opens a WebSocket (lines 253-257)
WsConnectWith(t, U, H, X) ==
    /\ pc[t] = "idle"
    /\ conn[t] = NoConn
    /\ \E ua \in U, h \in H, x \in X :
        conn' = [conn EXCEPT ![t] =
                   [state |-> "connecting", user_agent |-> ua,
                    agentcore |-> h, xsession |-> x]]
    /\ pc' = [pc EXCEPT ![t] = "ws_connecting"]
    /\ produced' = [produced EXCEPT ![t] = << >>]
    /\ frames' = [frames EXCEPT ![t] = << >>]
    /\ UNCHANGED <<svcVars, thrVarsButPc, calls, req, resp, generated>>

WsConnect(t) == WsConnectWith(t, UserAgents, WsHeaderValues, XSessionValues)

\* a connection that names its session in the X-Session-ID header
WsConnectPlain(t) == WsConnectWith(t, {<< >>}, {None}, {"x1"})

\* received counts the messages read on the connection (history field)
Open(sid, supplied) ==
    [state |-> "open", session_id |-> sid, supplied |-> supplied, received |-> 0]

\* lines 274-301: the session id of the connection is resolved, the
\* connection accepted
WsAccept(t) ==
    /\ pc[t] = "ws_connecting"
    /\ LET c == conn[t]
           hs == HeaderSession(c.user_agent, c.agentcore, c.xsession)
       IN /\ conn' = [conn EXCEPT ![t] =
                        Open(PyOr(hs, UuidOf(generated + 1)), ~Falsy(hs))]
          /\ generated' = IF Falsy(hs) THEN generated + 1 ELSE generated
    /\ pc' = [pc EXCEPT ![t] = "ws_wait"]
    /\ UNCHANGED <<svcVars, thrVarsButPc, calls, req, resp, strmVars>>

\* inbound texts: not JSON, a JSON array, or a JSON object with or without
\* the keys "prompt" and "session_id" ("" or set)
Message(j, hp, p, hs, s) ==
    [endpoint |-> "ws", json |-> j, has_prompt |-> hp, prompt |-> p,
     has_sid |-> hs, session_id |-> s]
\* {"prompt": 7}: a prompt that is a number, not a string
NumberPrompt == <<7>>
WsMessages ==
    {Message("invalid", FALSE, << >>, FALSE, None),
     Message("array", FALSE, << >>, FALSE, None),
     Message("object", TRUE, NumberPrompt, FALSE, None)}
    \cup {Message("object", hp[1], hp[2], hs[1], hs[2]) :
            hp \in {<<FALSE, << >> >>, <<TRUE, << >> >>, <<TRUE, <<" ", "a">> >>},
            hs \in {<<FALSE, None>>, <<TRUE, "">>, <<TRUE, "s1">>}}

\* lines 304-306: the handler is at `await websocket.receive_text()` only
\* between two messages: the loop body has run to its end
AtReceiveOrStreaming(t) == pc[t] \in {"ws_wait", "turn_backend"}
AtReceive(t) == pc[t] = "ws_wait"

\* line 306: receive_text() returns the next inbound text
WsReceiveFrom(t, M) ==
    /\ AtReceive(t)
    /\ conn[t].state = "open"
    /\ calls < MaxRequests
    /\ calls' = calls + 1
    /\ \E m \in M : req' = [req EXCEPT ![t] = m]
    /\ pc' = [pc EXCEPT ![t] = "ws_recv"]
    /\ resp' = [resp EXCEPT ![t] = NoResp]
    /\ conn' = [conn EXCEPT ![t].received = @ + 1]
    /\ produced' = [produced EXCEPT ![t] = << >>]
    /\ frames' = [frames EXCEPT ![t] = << >>]
    /\ UNCHANGED <<svcVars, thrVarsButPc, generated>>

WsReceive(t) == WsReceiveFrom(t, WsMessages)

\* the messages of a client that sends prompts, with or without a session
\* id, and one message without a prompt
WsPrompts ==
    {Message("object", TRUE, <<" ", "a">>, FALSE, None),
     Message("object", TRUE, <<" ", "a">>, TRUE, "s1"),
     Message("object", FALSE, << >>, FALSE, None)}
WsReceivePrompt(t) == WsReceiveFrom(t, WsPrompts)

\* messages that are JSON objects: the prompt is missing, empty, made of
\* whitespace only, or has content
WsObjects ==
    {Message("object", hp[1], hp[2], hs[1], hs[2]) :
        hp \in {<<FALSE, << >> >>, <<TRUE, << >> >>, <<TRUE, <<" ", "\n">> >>,
                <<TRUE, <<" ", "a">> >>},
        hs \in {<<FALSE, None>>, <<TRUE, "s1">>}}
WsReceiveObject(t) == WsReceiveFrom(t, WsObjects)

\* line 313: message.get("session_id", session_id)
MessageSessionId(m, sid) == IF m.has_sid THEN m.session_id ELSE sid

WsServing == [endpoint |-> "ws"]

\* lines 328, 316, 331, 336: send_text(json.dumps(event))
WsText(t, f) == [text |-> JsonDumps(f)]

\* an error frame with or without a session id
WsError(err) == [error |-> err, timestamp |-> Now]
WsPromptError(sid) ==
    [error |-> "Prompt is required and cannot be empty", session_id |-> sid,
     timestamp |-> Now]

\* the client has gone: its end of the connection is closed
Disconnected(t) == conn[t].state = "disconnected"

\* one frame is sent and the handler waits for the next message
WsFrameThenClose(t, f, ev) ==
    /\ resp' = [resp EXCEPT ![t] = f]
    /\ frames' = [frames EXCEPT ![t] = Append(@, WsText(t, ev))]
    /\ pc' = [pc EXCEPT ![t] = "closed"]
    /\ req' = [req EXCEPT ![t] = NoReq]
    /\ conn' = [conn EXCEPT ![t] = NoConn]
    /\ UNCHANGED <<svcVars, thrVarsButPc, calls, generated, produced>>
WsFrame(t, f, ev) ==
    /\ resp' = [resp EXCEPT ![t] = f]
    /\ frames' = [frames EXCEPT ![t] = Append(@, WsText(t, ev))]
    /\ pc' = [pc EXCEPT ![t] = "ws_wait"]
    /\ req' = [req EXCEPT ![t] = WsServing]
    /\ UNCHANGED <<svcVars, thrVarsButPc, calls, conn, generated, produced>>

\* lines 308-339: the text is parsed and validated and the stream started
WsHandle(t) ==
    /\ pc[t] = "ws_recv"
    /\ LET m == req[t]
           msid == MessageSessionId(m, conn[t].session_id)
       IN IF m.json = "invalid"
          THEN WsFrame(t, Response(0, "error", None, "Invalid JSON format"),
                       WsError("Invalid JSON format"))
          ELSE IF m.json = "array"
          THEN WsFrame(t, Response(0, "error", None, "AttributeError"),
                       WsError("AttributeError"))
          ELSE IF m.prompt = NumberPrompt
          THEN \* line 315: a number has no strip()
               WsFrame(t, Response(0, "error", None, "AttributeError"),
                       WsError("AttributeError"))
          ELSE IF PromptRejected(m.prompt)
          THEN WsFrame(t, Response(0, "error", msid, "Prompt is required"),
                       WsPromptError(msid))
          ELSE /\ Start(t, "process_message_stream",
                        [session_id |-> msid, actor_id |-> None, prompt |-> m.prompt],
                        "goc_lock")
               /\ req' = [req EXCEPT ![t] = WsServing]
               /\ UNCHANGED <<calls, resp, conn, generated, strmVars>>

\* lines 324-339: the stream is over (its frames sent), or it raised and one
\* error frame is sent; the handler waits for the next message
WsRespond(t) ==
    /\ pc[t] \in {"done", "raised"}
    /\ req[t].endpoint = "ws"
    /\ IF pc[t] = "raised" /\ Disconnected(t)
       THEN \* lines 335-341: send_text of the error frame raises in its
            \* turn, no frame is sent and the exception leaves the loop
            /\ resp' = [resp EXCEPT ![t] = NoResp]
            /\ frames' = frames
            /\ pc' = [pc EXCEPT ![t] = "closed"]
            /\ conn' = [conn EXCEPT ![t] = NoConn]
            /\ req' = [req EXCEPT ![t] = NoReq]
       ELSE /\ resp' = [resp EXCEPT ![t] =
                  IF pc[t] = "done"
                  THEN Response(0, "frames", arg[t].session_id, None)
                  ELSE Response(0, "error", None, ret[t].raised)]
            /\ frames' = [frames EXCEPT ![t] =
                    IF pc[t] = "raised"
                    THEN Append(@, WsText(t, WsError(ret[t].raised))) ELSE @]
            /\ pc' = [pc EXCEPT ![t] = "ws_wait"]
            /\ UNCHANGED <<req, conn>>
    /\ op' = [op EXCEPT ![t] = None]
    /\ arg' = [arg EXCEPT ![t] = NoArg]
    /\ agentRef' = [agentRef EXCEPT ![t] = 0]
    /\ ret' = [ret EXCEPT ![t] = NoResult]
    /\ seen' = [seen EXCEPT ![t] = << >>]
    /\ backendCalls' = [backendCalls EXCEPT ![t] = 0]
    \* the stream of the backend is over
    /\ produced' = [produced EXCEPT ![t] = << >>]
    /\ UNCHANGED <<svcVars, calls, generated>>

\* the client disconnects while the handler serves a prompt: the handler
\* learns of it when it next sends or receives
WsDisconnect(t) ==
    /\ conn[t].state = "open"
    /\ pc[t] \in {"goc_lock", "goc_create", "goc_return", "turn_start",
                  "turn_backend", "turn_backend_tool", "done", "raised"}
    /\ conn' = [conn EXCEPT ![t].state = "disconnected"]
    /\ UNCHANGED <<svcVars, thrVars, calls, req, resp, generated, strmVars>>

\* lines 306, 341: the client disconnects while the handler waits, or has
\* disconnected before: receive_text raises WebSocketDisconnect and the
\* task of the connection is over
WsClose(t) ==
    /\ pc[t] = "ws_wait"
    /\ conn' = [conn EXCEPT ![t] = NoConn]
    /\ req' = [req EXCEPT ![t] = NoReq]
    /\ resp' = [resp EXCEPT ![t] = NoResp]
    /\ pc' = [pc EXCEPT ![t] = "closed"]
    /\ produced' = [produced EXCEPT ![t] = << >>]
    /\ frames' = [frames EXCEPT ![t] = << >>]
    /\ UNCHANGED <<svcVars, thrVarsButPc, calls, generated>>

\* line 328: send_text raises on a connection the client has left
SendNeverFails(t) == FALSE
SendFails(t) == Disconnected(t)

\* services.py:180-227, main.py:199-200, 328: the backend yields one more
\* event; process_message_stream filters and stamps it and, if it has
\* meaningful content, yields it; the endpoint sends it as one frame.
\* json.dumps of the endpoint raises for an event it cannot encode.
StreamEventFrom(t, E) ==
    /\ pc[t] \in {"turn_backend", "turn_backend_tool"}
    /\ op[t] = "process_message_stream"
    /\ Len(produced[t]) < MaxEvents
    /\ \E e \in E :
        LET f == Filtered(e, arg[t].session_id)
            sent == Yields(f)
            broken == sent /\ req[t] # NoReq /\ ~Serializable(f)
            \* send_text raises: the client has gone
            gone == sent /\ ~broken /\ SendFails(t)
        IN /\ produced' = [produced EXCEPT ![t] = Append(@, e)]
           /\ frames' = [frames EXCEPT ![t] =
                 IF ~sent \/ broken \/ gone THEN @
                 ELSE IF req[t] = NoReq THEN Append(@, f)
                 ELSE IF req[t].endpoint = "ws" THEN Sent(@, WsText(t, f))
                 ELSE Sent(@, SseData(f))]
           /\ pc' = [pc EXCEPT ![t] = IF broken \/ gone THEN "raised" ELSE @]
           /\ ret' = [ret EXCEPT ![t] =
                 IF broken THEN Raise("TypeError")
                 ELSE IF gone THEN Raise("WebSocketDisconnect") ELSE @]
    /\ UNCHANGED <<svcVars, op, arg, agentRef, seen, backendCalls, calls,
                   req, resp, conn, generated>>

\* the backend yields any of its events; the filter handles each event on
\* its own, so one event a turn shows all it does
StreamAnyEvent(t) == produced[t] = << >> /\ StreamEventFrom(t, BackendEvents)

\* the events the streams of the endpoints are made of: two that are
\* forwarded, one that is dropped, one that json.dumps cannot encode
StreamEvents ==
    {[data |-> "txt"], [result |-> "res"], [message |-> [role |-> "assistant"]],
     [data |-> "obj"]}
StreamEvent(t) == StreamEventFrom(t, StreamEvents)

\* one WebSocket connection, its messages and the events of its streams
NextWs ==
    \/ WsConnect(Client) \/ WsAccept(Client) \/ WsReceive(Client)
    \/ WsHandle(Client) \/ WsRespond(Client) \/ WsClose(Client)
    \/ GocStep(Client) \/ TurnStep(Client) \/ StreamEvent(Client)

SpecWs == InitInMemory /\ [][NextWs]_vars

\* one WebSocket connection that the client may leave while a prompt is
\* served
NextWsClose ==
    \/ WsConnectPlain(Client) \/ WsAccept(Client) \/ WsReceivePrompt(Client)
    \/ WsHandle(Client) \/ WsRespond(Client) \/ WsClose(Client)
    \/ GocStep(Client) \/ TurnStep(Client) \/ StreamEvent(Client)
    \/ WsDisconnect(Client)

SpecWsClose == InitInMemory /\ [][NextWsClose]_vars

\* one WebSocket connection whose messages are JSON objects
NextWsPrompt ==
    \/ WsConnectPlain(Client) \/ WsAccept(Client) \/ WsReceiveObject(Client)
    \/ WsHandle(Client) \/ WsRespond(Client) \/ WsClose(Client)
    \/ GocStep(Client) \/ TurnStep(Client) \/ StreamEvent(Client)

SpecWsPrompt == InitInMemory /\ [][NextWsPrompt]_vars

\* the handler runs on the event loop whenever it can take a step, the call
\* of the backend ends, and receive_text raises once the client has gone
HandlerStep(t) ==
    \/ GocStep(t) \/ TurnStep(t) \/ WsRespond(t)
    \/ (Disconnected(t) /\ WsClose(t))

SpecWsCloseLive == SpecWsClose /\ WF_pc(HandlerStep(Client))

\* POST /invocations with the events of the streams
NextStream ==
    \/ HttpReceive(Client) \/ HttpHandle(Client) \/ HttpRespond(Client)
    \/ GocStep(Client) \/ TurnStep(Client) \/ StreamEvent(Client)

SpecStream == InitInMemory /\ [][NextStream]_vars

\* the response of a stream whose events are exhausted is completed: the
\* server drives generate_stream until it returns
SpecStreamLive == SpecStream /\ WF_pc(HttpRespond(Client))

\* POST /invocations with every kind of Accept and X-Stream header
NextNegotiate ==
    \/ HttpReceiveAny(Client) \/ HttpHandle(Client) \/ HttpRespond(Client)
    \/ GocStep(Client) \/ TurnStep(Client)

SpecNegotiate == InitInMemory /\ [][NextNegotiate]_vars

\* both endpoints: the client posts requests or opens a WebSocket
NextFrames == NextStream \/ NextWs

SpecFrames == InitInMemory /\ [][NextFrames]_vars

\* process_message_stream called directly, with every backend event
NextEvents ==
    \/ CallProcessMessageStream(Client)
    \/ GocStep(Client) \/ TurnStep(Client) \/ StreamAnyEvent(Client)

SpecEvents == InitInMemory /\ [][NextEvents]_vars

\* the life of the sessions: one WebSocket connection with its turns and
\* its disconnect, while another thread looks sessions up, evicts them and
\* queries the debug surface
NextLifecycle ==
    \/ WsConnect(Client) \/ WsAccept(Client) \/ WsReceive(Client)
    \/ WsHandle(Client) \/ WsRespond(Client) \/ WsClose(Client)
    \/ GocStep(Client) \/ TurnStep(Client)
    \/ \E t \in Workers \ {Client} :
        \/ CallGetOrCreate(t) \/ CallCleanup(t) \/ CallSessionInfo(t)
        \/ GocStep(t) \/ CsStep(t) \/ GiStep(t)

SpecLifecycle == InitInMemory /\ [][NextLifecycle]_vars

(***************************************************************************)
(* tools.py: retrieve, the wrapper of the knowledge-base retrieval tool.   *)
(***************************************************************************)
\* line 51: the number of results asked for when the caller names none
DefaultResults == 3
\* line 54: the most results the wrapper lets through
ResultsCap == 5
\* line 42: the most results the docstring says a caller may ask for
MaxRequested == 10

\* A ToolUse as the agent hands it over: an object with an attribute `input`,
\* or a mapping with a key "input" (hasattr(tool, 'input') is false for it);
\* the input names a query and may name numberOfResults and score
ToolShapes == {"attribute", "mapping"}
ToolInputs ==
    {[text |-> q] @@ n @@ sc :
        q \in {"q1", "q2"},
        n \in {<< >>} \cup {[numberOfResults |-> k] : k \in 1..MaxRequested},
        sc \in {<< >>, [score |-> "0.4"], [score |-> "0.8"]}}
ToolUses == {[shape |-> sh, input |-> i] : sh \in ToolShapes, i \in ToolInputs}

Smaller(a, b) == IF a < b THEN a ELSE b

\* lines 49-54: the number of results is defaulted or capped
Unclamped(i) == i
Clamped(i) ==
    IF "numberOfResults" \notin DOMAIN i
    THEN [numberOfResults |-> DefaultResults] @@ i
    ELSE [i EXCEPT !.numberOfResults = Smaller(@, ResultsCap)]

\* line 49: hasattr(tool, 'input') and isinstance(tool.input, dict)
HasInputDict(tool) == tool.shape = "attribute"

\* lines 48-56: what the wrapper passes to the base retrieval
Passed(tool) == IF HasInputDict(tool) THEN [tool EXCEPT !.input = Clamped(@)] ELSE tool

\* the agent calls the retrieve tool
Retrieve ==
    /\ \E tool \in ToolUses :
        toolCall' = [called |-> TRUE, tool |-> tool, passed |-> Passed(tool)]
    /\ UNCHANGED <<settings, app, agents, lock, instances, window, appended, removed,
                   lastRet, thrVars, calls, ioVars>>

SpecRetrieve == InitInMemory /\ [][Retrieve]_vars

(***************************************************************************)
(* Claims about the session table.                                         *)
(***************************************************************************)
GocCallers(s) ==
    {t \in Threads : op[t] = "get_or_create_agent" /\ arg[t].session_id = s}

\* C1: concurrent get_or_create_agent calls for one session id construct
\* exactly one agent and all receive it: every constructed instance that
\* was not evicted is the one registered for its session id (no
\* registration overwrites another), and every caller that has returned
\* holds the registered instance unless it has been evicted since.
C1_OneAgentPerSession ==
    /\ \A i \in Instances :
        i \notin removed =>
            /\ instances[i].session_id \in DOMAIN agents
            /\ agents[instances[i].session_id] = i
    /\ \A s \in SessionIds : \A t \in GocCallers(s) :
        (pc[t] = "done" /\ ret[t].value \notin removed) =>
            (s \in DOMAIN agents /\ agents[s] = ret[t].value)

\* three calls for one unseen session id overlap: one has returned the only
\* instance constructed, one holds the lock on its way out, one waits
C1_Witness ==
    \E s \in SessionIds : \E t1, t2, t3 \in GocCallers(s) :
        /\ pc[t1] = "done" /\ pc[t2] = "goc_return" /\ pc[t3] = "goc_lock"
        /\ lock = t2
        /\ Len(instances) = 1
        /\ removed = {}
        /\ ret[t1] = Ok(1) /\ agents[s] = 1

\* C2: get_or_create_agent is idempotent per session id: a call that finds
\* the id registered constructs nothing, leaves the table unchanged and
\* returns the registered instance; every return made with no evict since
\* an earlier return gives the instance of that earlier return.
C2_Idempotent ==
    [][\A t \in Threads :
        LET s == arg[t].session_id IN
        /\ (pc[t] = "goc_lock" /\ pc'[t] # "goc_lock" /\ s \in DOMAIN agents)
              => pc'[t] = "goc_return"
        /\ (pc[t] = "goc_return" /\ pc'[t] # "goc_return")
              => /\ agents' = agents
                 /\ instances' = instances
                 /\ ret'[t] = Ok(agents[s])
        /\ (pc[t] \in {"goc_return", "goc_create"} /\ pc'[t] \in {"done", "turn_start"}
               /\ lastRet[s] # 0)
              => ret'[t].value = lastRet[s]
      ]_vars

\* two calls for one session id have returned the same, only instance
C2_Witness ==
    \E s \in SessionIds : \E t1, t2 \in GocCallers(s) :
        /\ t1 # t2
        /\ pc[t1] = "done" /\ pc[t2] = "done"
        /\ ret[t1].value = ret[t2].value /\ ret[t1].value \in Instances
        /\ Len(instances) = 1

\* session_mode is agentcore_memory and agentcore_memory_id is missing
StoreMisconfigured ==
    /\ settings.session_mode = "agentcore_memory"
    /\ settings.agentcore_memory_id \in {None, ""}

\* C3: when constructing the session-history store fails, the failure is
\* raised to the caller and the session id is not registered: with the
\* memory id missing every construction attempt raises, and any raise out
\* of construction leaves the table as it was, without an entry for the id.
C3_FailedCreateLeavesNoEntry ==
    [][\A t \in Threads :
        (pc[t] = "goc_create" /\ pc'[t] # "goc_create") =>
            /\ StoreMisconfigured =>
                  /\ pc'[t] = "raised"
                  /\ ret'[t].raised \in {"ValueError", "ConstructionError"}
            /\ pc'[t] = "raised" =>
                  /\ agents' = agents
                  /\ instances' = instances
                  /\ arg[t].session_id \notin DOMAIN agents'
                  /\ lock' = None
      ]_vars

\* a call has raised the ValueError of the missing memory id
C3_Witness ==
    \E t \in Threads :
        /\ StoreMisconfigured
        /\ op[t] = "get_or_create_agent"
        /\ pc[t] = "raised"
        /\ ret[t] = Raise("ValueError")
        /\ agents = << >>

InTurn(t) == pc[t] \in {"turn_start", "turn_backend", "turn_backend_tool"}

\* C4: cleanup_session removes the mapping: an evicted instance is never
\* in the table again and no later get_or_create_agent returns it (the
\* next one for the id constructs a new instance), while a turn that holds
\* the evicted instance can still take its next step on it.
C4_EvictedNotFound ==
    /\ [](/\ \A i \in removed : \A s \in DOMAIN agents : agents[s] # i
          /\ \A t \in Workers :
                (InTurn(t) /\ agentRef[t] \in removed) =>
                    /\ pc[t] = "turn_start" => ENABLED TurnStart(t)
                    /\ pc[t] # "turn_start" => ENABLED TurnComplete(t))
    /\ [][\A t \in Workers :
            (pc[t] \in {"goc_return", "goc_create"} /\ pc'[t] \in {"done", "turn_start"})
                => ret'[t].value \notin removed'
         ]_vars

\* a turn is in the backend on an evicted instance while the session id is
\* registered again, with a new instance
C4_Witness ==
    \E t \in Workers :
        /\ pc[t] = "turn_backend"
        /\ agentRef[t] \in removed
        /\ arg[t].session_id \in DOMAIN agents
        /\ agents[arg[t].session_id] # agentRef[t]

C6_NewestKeptInOrder ==
    \A i \in Instances :
        LET W == settings.conversation_window_size
            n == Len(appended[i])
        IN n > W =>
            /\ Len(Snapshot(i)) = W
            /\ \A k \in 1..W : Snapshot(i)[k] = appended[i][n - W + k]

\* at least two turns were dropped from a window, which holds only later ones
C6_Witness ==
    \E i \in Instances :
        /\ Len(appended[i]) >= settings.conversation_window_size + 2
        /\ Snapshot(i)[1].ts = Len(appended[i]) - settings.conversation_window_size + 1

InBackend(t) == pc[t] \in {"turn_backend", "turn_backend_tool"}
IsTurnOp(t) == op[t] \in {"process_message", "process_message_stream"}

\* C7: in batch and in streaming mode the user prompt is appended before
\* the backend is invoked (the history the backend is given ends with the
\* prompt of this turn, which is in the session's history), and the
\* assistant's output is appended when the backend completes, not before
\* and not when it fails.
C7_PromptBeforeBackend ==
    /\ [](\A t \in Workers :
            (IsTurnOp(t) /\ InBackend(t)) =>
                LET h == appended[agentRef[t]] IN
                /\ backendCalls[t] = 1
                /\ seen[t] # << >>
                /\ LET u == seen[t][Len(seen[t])] IN
                   /\ u.role = "user"
                   /\ u.content = arg[t].prompt
                   /\ u.ts \in DOMAIN h /\ h[u.ts] = u)
    /\ [][\A t \in Workers :
            LET i == agentRef[t] IN
            /\ (pc[t] = "turn_start" /\ pc'[t] # "turn_start") =>
                  /\ backendCalls[t] = 0
                  /\ appended'[i][Len(appended'[i])].role = "user"
            /\ (InBackend(t) /\ pc'[t] = "done") =>
                  /\ Len(appended'[i]) = Len(appended[i]) + 1
                  /\ appended'[i][Len(appended'[i])].role = "assistant"
                  /\ backendCalls'[t] = 1
            /\ (InBackend(t) /\ pc'[t] = "raised") => appended' = appended
         ]_vars

\* a batch turn and a streaming turn have both completed on one session
C7_Witness ==
    \E t1, t2 \in Workers :
        /\ op[t1] = "process_message" /\ op[t2] = "process_message_stream"
        /\ pc[t1] = "done" /\ pc[t2] = "done"
        /\ agentRef[t1] = agentRef[t2]
        /\ ret[t1].raised = None /\ ret[t2].raised = None

(***************************************************************************)
(* Claims about the HTTP router.                                           *)
(***************************************************************************)
\* empty or whitespace-only
BlankPrompt(p) == \A k \in DOMAIN p : p[k] \in Whitespace

Received(t) == pc[t] = "http_recv"

\* C8: an HTTP invocation whose prompt is empty or whitespace-only is
\* answered 400 ValidationError (never AgentError), in batch and in
\* streaming negotiation, and the request ends there: no service method is
\* called, the backend is not invoked and the service is left as it was.
C8_BlankPromptRejected ==
    [][\A t \in Workers :
        (Received(t) /\ pc'[t] # "http_recv" /\ BlankPrompt(req[t].prompt)) =>
            /\ pc'[t] = "responded"
            /\ resp'[t].status = 400
            /\ resp'[t].type = "ValidationError"
            /\ op'[t] = None
            /\ backendCalls'[t] = 0
            /\ UNCHANGED svcVars
      ]_vars

\* a request asking for a stream and one asking for a batch answer have
\* both been rejected with 400
C8_Witness ==
    \E t1, t2 \in Workers :
        /\ pc[t1] = "responded" /\ pc[t2] = "responded"
        /\ req[t1] = Serving(TRUE) /\ req[t2] = Serving(FALSE)
        /\ resp[t1].type = "ValidationError" /\ resp[t2].type = "ValidationError"
        /\ resp[t1].status = 400 /\ resp[t2].status = 400
        /\ backendCalls[t1] = 0 /\ backendCalls[t2] = 0

\* C34: a rejected HTTP request changes nothing: the step that fails the
\* validation of the prompt answers 400 and leaves the session table, the
\* agents, their histories, the lock and the identifiers generated as they
\* were; a session id the request carried that was not registered is not
\* registered by it; and the table changes only in a call made for a
\* prompt that passed the validation.
C34_RejectedChangesNothing ==
    [][/\ \A t \in Workers :
            (Received(t) /\ BlankPrompt(req[t].prompt) /\ pc'[t] # "http_recv") =>
                /\ pc'[t] = "responded"
                /\ resp'[t].type = "ValidationError"
                /\ op'[t] = None /\ agentRef'[t] = 0
                /\ agents' = agents /\ instances' = instances
                /\ window' = window /\ appended' = appended
                /\ lock' = lock /\ generated' = generated
                /\ \A sid \in {req[t].header, req[t].payload} :
                        sid \notin DOMAIN agents => sid \notin DOMAIN agents'
       /\ agents' # agents =>
            \E u \in Workers :
                /\ pc[u] = "goc_create" /\ pc'[u] # "goc_create"
                /\ ~BlankPrompt(arg[u].prompt)
      ]_vars

\* the only request made so far was rejected for its prompt: no session,
\* agent or identifier exists and the lock is free
C34_Witness ==
    \E t \in Workers :
        /\ calls = 1
        /\ pc[t] = "responded"
        /\ resp[t].type = "ValidationError"
        /\ agents = << >> /\ instances = << >> /\ generated = 0
        /\ lock = None

Given(x) == x \notin {None, ""}
GeneratedIds == {UuidOf(n) : n \in 1..generated}
IdsInUse == DOMAIN agents \cup {arg[u].session_id : u \in Workers}

\* C9: the session id of an HTTP invocation is the runtime header when it
\* is non-empty (whatever the payload carries), else the payload
\* session_id when it is non-empty, else a non-empty identifier that was
\* never generated before and that no session or request uses.
C9_SessionIdPrecedence ==
    [][\A t \in Workers :
        (Received(t) /\ pc'[t] = "goc_lock") =>
            LET h == req[t].header
                b == req[t].payload
                sid == arg'[t].session_id
            IN /\ Given(h) => sid = h
               /\ (~Given(h) /\ Given(b)) => sid = b
               /\ (~Given(h) /\ ~Given(b)) =>
                     /\ Given(sid)
                     /\ sid \notin GeneratedIds
                     /\ sid \notin IdsInUse
                     /\ sid \notin HeaderValues \cup PayloadSessionIds
      ]_vars

\* one request ran under the header's id, the next one is dispatched under
\* the first generated id
C9_Witness ==
    \E t \in Workers :
        /\ DOMAIN agents = {"h1"}
        /\ arg[t].session_id = UuidOf(1)
        /\ pc[t] = "goc_lock"

(***************************************************************************)
(* Claims about the WebSocket endpoint.                                    *)
(***************************************************************************)
\* C10: on the WebSocket endpoint the session id of a prompt is the first
\* non-empty of: the session token of the User-Agent header, a session-id
\* header, the session_id of the message payload, a generated id; the
\* payload session_id is used only when no header supplied a session id.
C10_WsSessionIdPrecedence ==
    [][\A t \in Workers :
        /\ (pc[t] = "ws_connecting" /\ pc'[t] = "ws_wait") =>
              LET c == conn[t]
                  ua == UaSession(c.user_agent)
                  sid == conn'[t].session_id
              IN /\ Given(ua) => sid = ua
                 /\ (~Given(ua) /\ Given(c.agentcore)) => sid = c.agentcore
                 /\ (~Given(ua) /\ ~Given(c.agentcore) /\ Given(c.xsession))
                       => sid = c.xsession
                 /\ conn'[t].supplied
                       = (Given(ua) \/ Given(c.agentcore) \/ Given(c.xsession))
        /\ (pc[t] = "ws_recv" /\ pc'[t] = "goc_lock") =>
              LET b == IF req[t].has_sid THEN req[t].session_id ELSE None
                  sid == arg'[t].session_id
              IN /\ conn[t].supplied => sid = conn[t].session_id
                 /\ (~conn[t].supplied /\ Given(b)) => sid = b
                 /\ (~conn[t].supplied /\ ~Given(b)) =>
                       (sid = conn[t].session_id /\ sid \in GeneratedIds)
      ]_vars

(***************************************************************************)
(* Claims about the streams.                                               *)
(***************************************************************************)
\* the events of evs that are forwarded, filtered and stamped for session sid
RECURSIVE ForwardedOf(_, _)
ForwardedOf(evs, sid) ==
    IF evs = << >> THEN << >>
    ELSE LET f == Filtered(Head(evs), sid)
         IN (IF Yields(f) THEN <<f>> ELSE << >>) \o ForwardedOf(Tail(evs), sid)

SseAll(fs) == [k \in DOMAIN fs |-> SseData(fs[k])]

StreamAnswered(t) ==
    pc[t] = "responded" /\ req[t].endpoint = "invocations" /\ req[t].streaming

\* C11: when the backend fails in the middle of a streaming turn, after k
\* forwarded events, the client has been sent exactly those k events in
\* order and then exactly one error event, and nothing is sent after it.
C11_OneTerminalError ==
    /\ [](\A t \in Workers :
            (StreamAnswered(t) /\ resp[t].error = "BackendError") =>
                frames[t] = SseAll(ForwardedOf(produced[t], resp[t].session_id))
                            \o <<SseData(ErrorEvent("BackendError", resp[t].session_id))>>)
    /\ [][\A t \in Workers :
            (StreamAnswered(t) /\ pc'[t] = "responded") => frames'[t] = frames[t]]_vars

C11_Witness ==
    /\ StreamAnswered(Client)
    /\ resp[Client].error = "BackendError"
    /\ Len(produced[Client]) = 2
    /\ Len(frames[Client]) = 3

\* the frame an endpoint makes of an event
FrameOf(t, f) == IF req[t].endpoint = "ws" THEN WsText(t, f) ELSE SseData(f)
FramesOf(t, fs) == [k \in DOMAIN fs |-> FrameOf(t, fs[k])]

\* thread t serves a request whose stream runs or has ended without error
Streaming(t) ==
    /\ req[t] # NoReq
    /\ op[t] = "process_message_stream"
    /\ pc[t] \in {"turn_backend", "turn_backend_tool", "done"}

\* C12: within one streaming turn the frames sent to the client (SSE data
\* lines or WebSocket messages) are exactly the forwarded backend events,
\* one frame an event, in the order the backend produced them.
C12_FramesInBackendOrder ==
    \A t \in Workers :
        Streaming(t) =>
            frames[t] = FramesOf(t, ForwardedOf(produced[t], arg[t].session_id))

C12_Witness ==
    /\ Streaming(Client)
    /\ req[Client].endpoint = "ws"
    /\ pc[Client] = "done"
    /\ Len(frames[Client]) = 2
    /\ frames[Client][1] # frames[Client][2]

\* a direct caller of process_message_stream has been handed its events
Iterating(t) == req[t] = NoReq /\ op[t] = "process_message_stream"

LifecycleMarkers == {"init_event_loop", "start_event_loop", "complete", "force_stop"}

\* the event carries partial text, a lifecycle marker, a tool name or a result
Carries(e) ==
    \/ "data" \in DOMAIN e
    \/ \E k \in LifecycleMarkers : k \in DOMAIN e /\ e[k] = "True"
    \/ "current_tool_use" \in DOMAIN e /\ e.current_tool_use.name # ""
    \/ "result" \in DOMAIN e

\* C13: a backend event is forwarded if and only if it carries partial text,
\* a lifecycle marker, a tool name or a final result; any other event (only
\* a message role, only a tool-use id) is dropped.
C13_ForwardedIffMeaningful ==
    \A t \in Workers :
        (Iterating(t) /\ Len(produced[t]) = 1) =>
            /\ Len(frames[t]) = (IF Carries(produced[t][1]) THEN 1 ELSE 0)
            /\ \A k \in DOMAIN frames[t] : DOMAIN Picked(produced[t][1]) \subseteq DOMAIN frames[t][k]

C13_Witness ==
    /\ Iterating(Client)
    /\ produced[Client] = <<[current_tool_use |-> [name |-> "", toolUseId |-> "tu1"]]>>
    /\ frames[Client] = << >>
    /\ pc[Client] = "done"

StampKeys == {"session_id", "timestamp", "model"}

\* C14: every event process_message_stream emits carries the session id of
\* the request, a timestamp and the configured model id, whatever fields the
\* backend event had under those names.
C14_EventsStamped ==
    \A t \in Workers :
        Iterating(t) =>
            \A k \in DOMAIN frames[t] :
                /\ StampKeys \subseteq DOMAIN frames[t][k]
                /\ frames[t][k].session_id = arg[t].session_id
                /\ frames[t][k].timestamp = Now
                /\ frames[t][k].model = settings.model_id

C14_Witness ==
    /\ Iterating(Client)
    /\ Len(produced[Client]) = 1
    /\ "session_id" \in DOMAIN produced[Client][1]
    /\ produced[Client][1].session_id # arg[Client].session_id
    /\ Len(frames[Client]) = 1
    /\ frames[Client][1].session_id = arg[Client].session_id

\* the JSON object a frame carries
PayloadOf(fr) == IF "sse" \in DOMAIN fr THEN fr.sse.json ELSE fr.text.json
IsErrorFrame(fr) == "error" \in DOMAIN PayloadOf(fr)

\* C15: every frame sent to a client, the error frames too (the final error
\* event of an HTTP stream, the error frames of the WebSocket endpoint),
\* carries a session id, a timestamp and the model id.
C15_EveryFrameCarriesMetadata ==
    \A t \in Workers :
        \A k \in DOMAIN frames[t] : StampKeys \subseteq DOMAIN PayloadOf(frames[t][k])

\* the ways a streaming turn fails once the response has begun: the agent
\* cannot be built, the backend fails, an event cannot be encoded
StreamFailures == {"ConstructionError", "BackendError", "TypeError"}

\* C16: once the HTTP streaming response has begun no failure raises: a
\* failure to build the agent, of the backend or of the encoding of an event
\* ends the stream with one error event, the last frame, and no exception
\* leaves the stream generator.
C16_StreamNeverRaises ==
    \A t \in Workers :
        (StreamAnswered(t) /\ resp[t].status = 200 /\ resp[t].error # None) =>
            /\ resp[t].error \in StreamFailures
            /\ resp[t].type = "StreamingResponse"
            /\ frames[t] # << >>
            /\ \A k \in DOMAIN frames[t] : IsErrorFrame(frames[t][k]) = (k = Len(frames[t]))
            /\ PayloadOf(frames[t][Len(frames[t])]).error = resp[t].error

C16_Witness ==
    /\ StreamAnswered(Client)
    /\ resp[Client].error = "TypeError"
    /\ Len(produced[Client]) = 2
    /\ Len(frames[Client]) = 2

(***************************************************************************)
(* Claims about the messages of a WebSocket connection.                    *)
(***************************************************************************)
\* text that is not JSON, JSON that is not an object, a prompt that is not
\* a string
Malformed(m) == m.json \in {"invalid", "array"} \/ m.prompt = NumberPrompt

\* C18: on a WebSocket connection a malformed inbound message is answered
\* by exactly one error frame, no turn is started for it, and the connection
\* stays open: the handler waits for the next message and reads it.
C18_MalformedKeepsConnection ==
    /\ [][\A t \in Workers :
            (pc[t] = "ws_recv" /\ Malformed(req[t]) /\ pc'[t] # "ws_recv") =>
                /\ pc'[t] = "ws_wait"
                /\ conn'[t].state = "open"
                /\ Len(frames'[t]) = 1
                /\ IsErrorFrame(frames'[t][1])
                /\ op'[t] = None
                /\ DOMAIN agents' = DOMAIN agents]_vars
    /\ [](\A t \in Workers :
            (pc[t] = "ws_wait" /\ calls < MaxRequests) => ENABLED WsReceive(t))

C18_Witness ==
    /\ pc[Client] = "ws_wait"
    /\ conn[Client].state = "open"
    /\ conn[Client].received = 1
    /\ frames[Client] = <<WsText(Client, WsError("AttributeError"))>>
    /\ ENABLED WsReceive(Client)

\* the message is a JSON object whose prompt is missing, empty or made of
\* whitespace only
NoPrompt(m) == m.json = "object" /\ (~m.has_prompt \/ BlankPrompt(m.prompt))

\* C33: on a WebSocket connection a message whose prompt is missing, empty
\* or whitespace-only is answered by exactly one error frame, the one that
\* says a prompt is required; no service method is called, the backend is
\* not invoked, no session is created, and the connection stays open: the
\* handler waits for the next message and reads it.
C33_WsBlankPromptRejected ==
    /\ [][\A t \in Workers :
            (pc[t] = "ws_recv" /\ NoPrompt(req[t]) /\ pc'[t] # "ws_recv") =>
                /\ frames'[t] =
                     <<WsText(t, WsPromptError(
                          MessageSessionId(req[t], conn[t].session_id)))>>
                /\ op'[t] = None
                /\ backendCalls'[t] = 0
                /\ UNCHANGED svcVars
                /\ pc'[t] = "ws_wait"
                /\ conn'[t] = conn[t]
                /\ conn[t].state = "open"]_vars
    /\ [](\A t \in Workers :
            (pc[t] = "ws_wait" /\ conn[t].state = "open" /\ calls < MaxRequests)
                => ENABLED WsReceiveObject(t))

\* a message without a usable prompt that named session s1 has been
\* answered by the one error frame; no session exists and the next message
\* can be read
C33_Witness ==
    /\ pc[Client] = "ws_wait"
    /\ conn[Client].state = "open"
    /\ conn[Client].received = 1
    /\ frames[Client] = <<WsText(Client, WsPromptError("s1"))>>
    /\ conn[Client].session_id # "s1"
    /\ agents = << >>
    /\ ENABLED WsReceiveObject(Client)

\* the response to the message last read has been sent in full
Answered(t) == op[t] = None /\ resp[t].type \in {"frames", "error"}

\* C19: on one WebSocket connection the prompts are dispatched in sequence:
\* message k+1 is read only when every frame of the response to message k
\* has been sent, so the frames sent while a prompt is served are frames of
\* that prompt.
C19_PromptsInSequence ==
    /\ [][\A t \in Workers :
            (conn[t].state = "open" /\ conn'[t].state = "open"
             /\ conn'[t].received # conn[t].received) =>
                /\ conn'[t].received = conn[t].received + 1
                /\ frames'[t] = << >>
                /\ conn[t].received > 0 => Answered(t)
                /\ conn[t].received = 0 => op[t] = None]_vars
    /\ [](\A t \in Workers :
            (conn[t].state = "open" /\ op[t] = "process_message_stream") =>
                \A k \in DOMAIN frames[t] :
                    PayloadOf(frames[t][k]).session_id = arg[t].session_id)

C19_Witness ==
    /\ conn[Client].state = "open"
    /\ conn[Client].received = 2
    /\ pc[Client] = "turn_backend"
    /\ Len(frames[Client]) = 2
    /\ arg[Client].session_id \in SessionIds
    /\ lastRet[arg[Client].session_id] # 0

(***************************************************************************)
(* Claims about the turns of one session.                                  *)
(***************************************************************************)
\* thread u is in a turn of agent instance i: its prompt is appended, its
\* assistant output is not yet
TurnOpen(u, i) == InBackend(u) /\ agentRef[u] = i

\* C20: the turns of one session are processed and appended in request
\* order, also when two requests are handled concurrently: the prompt of
\* the later request is appended only when the prompt and the assistant
\* output of the earlier one have been.
C20_TurnsInRequestOrder ==
    [][\A t \in Workers :
        (pc[t] = "turn_start" /\ pc'[t] = "turn_backend") =>
            \A u \in Workers \ {t} : ~TurnOpen(u, agentRef[t])]_vars

\* C21: at most one turn, batch or streaming, is active on the agent of a
\* session at any time, however the requests that carry the session id
\* interleave.
C21_OneActiveTurnPerSession ==
    \A t, u \in Workers :
        (t # u /\ IsTurnOp(t) /\ IsTurnOp(u) /\ InBackend(t) /\ InBackend(u)) =>
            agentRef[t] # agentRef[u]

\* the events of the backend are exhausted and the turn has ended without
\* an error
StreamExhausted(t) == pc[t] = "done" /\ req[t] = Serving(TRUE)

\* C29: when the events of the backend end without an error the HTTP
\* streaming response terminates: the frame generator returns after the
\* last forwarded event, which ends the stream, and neither an error frame
\* nor any other frame is sent after that event.
C29_StreamTerminates ==
    /\ \A t \in Workers : StreamExhausted(t) ~> StreamAnswered(t)
    /\ [](\A t \in Workers :
            (StreamAnswered(t) /\ resp[t].status = 200 /\ resp[t].error = None) =>
                /\ resp[t].type = "StreamingResponse"
                /\ frames[t] = SseAll(ForwardedOf(produced[t], resp[t].session_id))
                /\ \A k \in DOMAIN frames[t] : ~IsErrorFrame(frames[t][k]))

\* a stream of two events, one of them forwarded, has ended
C29_Witness ==
    /\ StreamAnswered(Client)
    /\ resp[Client].error = None
    /\ Len(produced[Client]) = 2
    /\ Len(frames[Client]) = 1
    /\ ~IsErrorFrame(frames[Client][1])

\* the handler of the connection has terminated
Terminated(t) == pc[t] = "closed"

\* C30: when the WebSocket connection closes, while the handler waits for
\* the next message or in the middle of streaming a response, the stream
\* is abandoned: no further frame is sent on the connection, no further
\* prompt of it is received or dispatched, the first send that is tried
\* ends the turn without a reply, and the handler terminates and stays
\* terminated.
C30_CloseAbandonsStream ==
    /\ [][\A t \in Workers :
            /\ Disconnected(t) =>
                /\ Len(frames'[t]) <= Len(frames[t])
                /\ calls' = calls
                /\ pc'[t] # "ws_recv"
                /\ (pc'[t] = "goc_lock" => pc[t] = "goc_lock")
                /\ (pc[t] \in {"raised", "ws_wait"} /\ pc'[t] # pc[t]) =>
                        Terminated(t)'
                /\ (produced'[t] # produced[t] /\ produced'[t] # << >>
                        /\ Yields(Filtered(produced'[t][Len(produced'[t])],
                                           arg[t].session_id))) =>
                        pc'[t] = "raised"
                /\ ~Terminated(t)' => Disconnected(t)'
            /\ (pc[t] = "ws_wait" /\ conn'[t].state # conn[t].state) =>
                    Terminated(t)'
            /\ Terminated(t) => (Terminated(t)' /\ frames'[t] = frames[t])]_vars
    /\ \A t \in Workers : Disconnected(t) ~> Terminated(t)

\* the client has left in the middle of a stream: one frame was sent, the
\* send of the next one has failed
C30_Witness ==
    /\ Disconnected(Client)
    /\ pc[Client] = "raised"
    /\ ret[Client].raised = "WebSocketDisconnect"
    /\ Len(frames[Client]) >= 1
    /\ Len(produced[Client]) >= 2

(***************************************************************************)
(* Claims about the sessions and their agents.                             *)
(***************************************************************************)
\* the session the agent instance i was constructed for
OwnerOf(i) == instances[i].session_id

\* C22: one agent is owned by exactly one session: the session table maps
\* distinct session ids to distinct agent instances, each constructed for
\* its session id, and a turn on one session uses and appends to the
\* history of that session's agent only.
C22_AgentOwnedByOneSession ==
    /\ [](/\ \A s1, s2 \in DOMAIN agents : s1 # s2 => agents[s1] # agents[s2]
          /\ \A s \in DOMAIN agents : OwnerOf(agents[s]) = s
          /\ \A t \in Workers :
                (IsTurnOp(t) /\ InTurn(t)) => OwnerOf(agentRef[t]) = arg[t].session_id)
    /\ [][\A i \in Instances :
            (appended'[i] # appended[i] \/ window'[i] # window[i]) =>
                \E t \in Workers :
                    /\ InTurn(t) /\ pc'[t] # "turn_start"
                    /\ agentRef[t] = i
                    /\ OwnerOf(i) = arg[t].session_id
         ]_vars

\* two sessions are registered, each with its own agent, and a turn has
\* completed on each
C22_Witness ==
    /\ DOMAIN agents = SessionIds
    /\ agents["s1"] # agents["s2"]
    /\ \A s \in SessionIds :
        \E k \in DOMAIN appended[agents[s]] : appended[agents[s]][k].role = "assistant"

Evicting(t, s) ==
    op[t] = "cleanup_session" /\ pc[t] = "cs_body" /\ arg[t].session_id = s

\* C23: a session is created by the first call for a new identifier and
\* then stays in the table, bound to the same agent instance, through
\* turns, failed turns, lookups, debug queries and client disconnects; only
\* cleanup_session for its id removes it.
C23_SessionPersistsUntilEvicted ==
    [][/\ \A s \in DOMAIN agents :
            (s \notin DOMAIN agents' \/ agents'[s] # agents[s]) =>
                /\ s \notin DOMAIN agents'
                /\ \E t \in Workers : Evicting(t, s)
       /\ \A s \in DOMAIN agents' \ DOMAIN agents :
            /\ agents'[s] \notin Instances
            /\ \E t \in Workers : pc[t] = "goc_create" /\ arg[t].session_id = s
      ]_vars

\* the session of a WebSocket client is still registered after its turn
\* failed, the client disconnected and a debug query listed it
C23_Witness ==
    /\ pc[Client] = "closed"
    /\ \E t \in Workers :
        /\ op[t] = "get_session_info" /\ pc[t] = "done"
        /\ ret[t].result.active_sessions = 1
    /\ \E s \in DOMAIN agents :
        /\ appended[agents[s]] # << >>
        /\ \A k \in DOMAIN appended[agents[s]] : appended[agents[s]][k].role = "user"

(***************************************************************************)
(* Claims about the modes of an HTTP invocation.                           *)
(***************************************************************************)
\* the media types, in the spellings the requests use, that ask for a stream
StreamTypes ==
    {"text/event-stream", "Text/Event-Stream",
     "application/x-ndjson", "APPLICATION/X-NDJSON"}

\* the request r asks for a stream
AsksForStream(r) ==
    \/ \E k \in DOMAIN r.accept : r.accept[k] \in StreamTypes
    \/ r.xstream \in {"true", "True"}

BatchDone(t) == pc[t] = "done" /\ req[t] = Serving(FALSE)

\* C25: a successful batch invocation returns the whole output of the
\* backend as output.response, the session id the router resolved for the
\* request as session_id and the configured model id as model; a later call
\* that uses the returned session id is served by the same agent instance.
C25_BatchResponse ==
    /\ [][\A t \in Workers :
            (BatchDone(t) /\ pc'[t] = "responded") =>
                LET h == appended[agentRef[t]] IN
                /\ resp'[t].status = 200
                /\ resp'[t].type = "InvocationResponse"
                /\ \E k \in DOMAIN h :
                    /\ h[k].role = "assistant"
                    /\ resp'[t].output = [response |-> h[k].content]
                /\ resp'[t].session_id = arg[t].session_id
                /\ resp'[t].model = settings.model_id
                /\ agentRef[t] = agents[resp'[t].session_id]
         ]_vars
    /\ [][\A s \in DOMAIN agents : s \in DOMAIN agents' /\ agents'[s] = agents[s]]_vars
    /\ [](\A t \in Workers :
            (IsTurnOp(t) /\ agentRef[t] # 0) => agentRef[t] = agents[arg[t].session_id])

\* a batch invocation was answered with session id s1 and a second request
\* that names s1 is served by the agent of the first
C25_Witness ==
    \E t, u \in Workers :
        /\ t # u
        /\ pc[u] = "responded" /\ resp[u].type = "InvocationResponse"
        /\ resp[u].session_id = "s1"
        /\ resp[u].output = [response |-> <<" ", "a">>]
        /\ pc[t] = "turn_backend" /\ arg[t].session_id = "s1"
        /\ Len(instances) = 1 /\ agentRef[t] = 1
        /\ Len(appended[1]) = 3

BatchFailed(t) == pc[t] = "raised" /\ req[t] = Serving(FALSE)

\* C26: in batch mode a failure of the backend is not swallowed: the caller
\* is answered 500 with an AgentError that carries the session id and the
\* cause, no success response is produced, and the backend was invoked once
\* for the request, never again.
C26_BatchFailureSurfaced ==
    /\ [][\A t \in Workers :
            (BatchFailed(t) /\ pc'[t] = "responded") =>
                /\ resp'[t].status = 500
                /\ resp'[t].type = "AgentError"
                /\ resp'[t].session_id = arg[t].session_id
                /\ resp'[t].error = ret[t].raised
                /\ ret[t].raised # None
                /\ frames'[t] = << >>
         ]_vars
    /\ [](\A t \in Workers :
            (op[t] = "process_message" /\ req[t] = Serving(FALSE)) =>
                /\ backendCalls[t] <= 1
                /\ ret[t].raised = "BackendError" => backendCalls[t] = 1)

\* a batch request whose backend call failed was answered 500; the prompt
\* is the only turn of the session
C26_Witness ==
    \E t \in Workers :
        /\ pc[t] = "responded" /\ req[t] = Serving(FALSE)
        /\ resp[t] = Response(500, "AgentError", "h1", "BackendError")
        /\ Len(instances) = 1
        /\ Len(appended[1]) = 1

(***************************************************************************)
(* Claims about the probes and the debug surface.                          *)
(***************************************************************************)
Probed(t, e) == pc[t] = "probe" /\ req[t].endpoint = e /\ pc'[t] # "probe"

\* C27: the liveness probe /ping succeeds in every state, whether or not the
\* agent service is initialized; the readiness probe /ready succeeds in the
\* states where startup has initialized the agent service and shutdown has
\* not torn it down, and fails in every other state.
C27_Probes ==
    /\ [][\A t \in Threads :
            /\ Probed(t, "ping") =>
                  (resp'[t].status = 200 /\ resp'[t].health = "ok")
            /\ Probed(t, "ready") =>
                  IF app.lifespan = "running"
                  THEN resp'[t].status = 200 /\ resp'[t].health = "ready"
                  ELSE resp'[t].status = 500
         ]_vars
    /\ [](app.agent_service = (app.lifespan = "running"))

\* after shutdown: a /ready probe has failed, a /ping probe has succeeded,
\* and a /ready probe made before shutdown succeeded
C27_Witness ==
    \E t1, t2, t3 \in Threads :
        /\ app.lifespan = "finished"
        /\ pc[t1] = "responded" /\ req[t1].endpoint = "ready" /\ resp[t1].status = 500
        /\ pc[t2] = "responded" /\ req[t2].endpoint = "ping" /\ resp[t2].status = 200
        /\ pc[t3] = "responded" /\ req[t3].endpoint = "ready" /\ resp[t3].status = 200

InSessionInfo(t) == op[t] = "get_session_info" /\ pc[t] \in {"gi_lock", "gi_body"}

\* C28: get_session_info is read-only: no step of it changes the session
\* table, the agents or their windows; it reports the number of registered
\* sessions and exactly the ids registered at the instant it reads the
\* table, each id once, also while get_or_create_agent and cleanup_session
\* run in other threads.
C28_SessionInfoReadOnly ==
    [][\A t \in Threads :
        (InSessionInfo(t) /\ pc'[t] # pc[t]) =>
            /\ UNCHANGED <<settings, agents, instances, window, appended, removed>>
            /\ pc'[t] = "done" =>
                  LET info == ret'[t].result
                      ids == info.session_ids
                  IN /\ lock' = None
                     /\ info.active_sessions = Cardinality(DOMAIN agents)
                     /\ info.active_sessions = Len(ids)
                     /\ {ids[k] : k \in DOMAIN ids} = DOMAIN agents
                     /\ \A j, k \in DOMAIN ids : j # k => ids[j] # ids[k]
      ]_vars

\* a query has reported the one session registered when it read the table;
\* another thread has evicted that session since
C28_Witness ==
    \E t, u \in Threads :
        /\ op[t] = "get_session_info" /\ pc[t] = "done"
        /\ ret[t].result = [active_sessions |-> 1, session_ids |-> <<"s1">>]
        /\ op[u] = "cleanup_session" /\ pc[u] = "done"
        /\ agents = << >>

(***************************************************************************)
(* Claims about the tools.                                                 *)
(***************************************************************************)
\* C17: before it delegates to the base retrieval the retrieve tool sets
\* numberOfResults to 3 when the tool input carries none and to min(n, 5)
\* when it carries n; nothing is raised.
C17_RetrieveClamp ==
    toolCall.called =>
        LET asked == toolCall.tool.input
            sent == toolCall.passed.input
        IN /\ "numberOfResults" \in DOMAIN sent
           /\ sent.numberOfResults =
                 IF "numberOfResults" \in DOMAIN asked
                 THEN Smaller(asked.numberOfResults, 5) ELSE 3

(***************************************************************************)
(* Claims about the lock of the service.                                   *)
(***************************************************************************)
\* the thread is inside a `with self._lock` block, where the table is read
\* or changed
InTable(t) == pc[t] \in {"goc_create", "goc_return", "cs_body", "gi_body"}

\* C31: every read and every change of the session table happens while
\* the one lock of the service is held: a thread inside a block that
\* touches the table holds the lock, so no two threads are inside such
\* blocks at once, and the table changes only in a step of the holder
\* that is inside its block.
C31_TableUnderLock ==
    /\ [](/\ \A t \in Threads : InTable(t) => lock = t
          /\ \A t, u \in Threads : (InTable(t) /\ InTable(u)) => t = u
          /\ lock # None => InTable(lock))
    /\ [][/\ agents' # agents =>
                \E t \in Threads : lock = t /\ InTable(t) /\ pc'[t] # pc[t]
          /\ \A t \in Threads :
                (InTable(t) /\ ~InTable(t)') => (lock = t /\ lock' = None)
         ]_vars

\* one thread is about to insert an entry while a delete and a read wait
\* for the lock
C31_Witness ==
    \E t, u, v \in Threads :
        /\ pc[t] = "goc_create" /\ arg[t].session_id \notin DOMAIN agents
        /\ pc[u] = "cs_lock"
        /\ pc[v] = "gi_lock"
        /\ lock = t

\* the thread waits to enter a `with self._lock` block
AtLock(t) == pc[t] \in {"goc_lock", "cs_lock", "gi_lock"}

\* C32: the lock of the session table is never held while a backend
\* invocation, batch or streaming, is in progress: a thread in a turn does
\* not hold the lock, and a get_or_create_agent, cleanup_session or
\* get_session_info call of any session id that waits for the lock
\* acquires it and completes, also while a turn never leaves the backend.
C32_BackendOutsideLock ==
    /\ [](\A t \in Workers : InTurn(t) => lock # t)
    /\ \A u \in Workers : AtLock(u) ~> (~AtLock(u) /\ ~InTable(u))

\* a session is deleted from the table while a turn on it is in the
\* backend
C32_Witness ==
    \E u \in Workers \ {Client} :
        /\ pc[Client] = "turn_backend"
        /\ pc[u] = "cs_body" /\ lock = u
        /\ arg[u].session_id = arg[Client].session_id

\* the call of thread t has failed to construct the agent of its session
FailedCreate(t) ==
    /\ pc[t] = "raised"
    /\ ret[t].raised \in {"ValueError", "ConstructionError"}

\* C35: the lock is released on every way out of get_or_create_agent, the
\* raise out of a failed construction included: the step that leaves the
\* block frees the lock, so a thread that waits for the lock afterwards
\* enters its block and completes its call, and a call for an id whose
\* construction failed finds it unregistered and constructs again.
C35_LockReleasedOnFailure ==
    /\ [][\A t \in Threads :
            /\ (pc[t] \in {"goc_create", "goc_return"} /\ pc'[t] # pc[t]) =>
                    (lock = t /\ lock' = None)
            /\ (pc[t] = "goc_create" /\ pc'[t] = "raised") =>
                    arg[t].session_id \notin DOMAIN agents'
            /\ (pc[t] = "goc_lock" /\ pc'[t] # "goc_lock"
                    /\ arg[t].session_id \notin DOMAIN agents) =>
                    pc'[t] = "goc_create"
         ]_vars
    /\ [](\A t \in Threads :
            /\ FailedCreate(t) => lock # t
            /\ (AtLock(t) /\ lock = None) => ENABLED TableStep(t))
    /\ \A u \in Threads : AtLock(u) ~> (~AtLock(u) /\ ~InTable(u))

\* a construction for s1 has failed; a second call for s1, made by the
\* other thread, is constructing again
C35_Witness ==
    \E t, u \in Threads :
        /\ FailedCreate(t) /\ op[t] = "get_or_create_agent"
        /\ arg[t].session_id = "s1"
        /\ pc[u] = "goc_create" /\ arg[u].session_id = "s1" /\ lock = u

\* the call of thread t is over
Finished(t) == pc[t] \in {"idle", "done", "raised"}

\* C36: get_or_create_agent racing with cleanup_session for one session id
\* never fails on a missing table entry: its return statement finds the
\* entry its block tested or inserted, so the call gives an agent instance
\* unless the construction itself failed; and once both calls have
\* finished the table maps the id to the very instance that was returned,
\* or holds no entry for the id.
C36_RaceWithCleanup ==
    /\ [](\A t \in Workers :
            /\ ret[t].raised # "KeyError"
            /\ (op[t] = "get_or_create_agent" /\ pc[t] = "done") =>
                    ret[t].value \in Instances
            /\ (op[t] = "get_or_create_agent" /\ pc[t] = "done"
                    /\ \A u \in Workers : Finished(u)) =>
                    LET s == arg[t].session_id
                    IN s \in DOMAIN agents => agents[s] = ret[t].value)
    /\ [][\A t \in Workers :
            (pc[t] \in {"goc_create", "goc_return"} /\ pc'[t] # pc[t]) =>
                \/ pc'[t] = "done" /\ ret'[t].value \in Instances'
                \/ pc[t] = "goc_create" /\ ret'[t].raised = "ConstructionError"
         ]_vars

\* a cleanup of s1 waits for the lock while a call for s1, which found it
\* registered, is about to return its instance
C36_Witness ==
    \E u \in Workers \ {Client} :
        /\ pc[Client] = "goc_return" /\ arg[Client].session_id = "s1"
        /\ pc[u] = "cs_lock" /\ arg[u].session_id = "s1"
        /\ "s1" \in DOMAIN agents

(***************************************************************************)
(* Claims about the actor of a session and about cleanup_session.          *)
(***************************************************************************)
\* the actor the history store of instance i is bound to
ActorOf(i) == instances[i].session_manager.actor_id

\* C37: the actor id is bound at creation only: the history store of a new
\* instance is bound to the actor id of the creating call, or to the
\* default actor when that call gave none; an instance is never changed
\* afterwards; and a call for a registered session id returns the
\* registered instance and leaves table and instances as they are,
\* whatever actor id it carries.
C37_ActorBoundAtCreation ==
    [][/\ \A i \in Instances : instances'[i] = instances[i]
       /\ \A t \in Threads :
            LET s == arg[t].session_id IN
            /\ (pc[t] = "goc_lock" /\ pc'[t] # "goc_lock" /\ s \in DOMAIN agents) =>
                    pc'[t] = "goc_return"
            /\ (pc[t] = "goc_return" /\ pc'[t] # "goc_return") =>
                    /\ ret'[t] = Ok(agents[s])
                    /\ agents' = agents
                    /\ instances' = instances
            /\ (pc[t] = "goc_create" /\ Len(instances') > Len(instances)
                    /\ settings.session_mode = "agentcore_memory") =>
                    instances'[Len(instances')].session_manager.actor_id =
                        IF arg[t].actor_id \in {None, ""} THEN "default_user"
                        ELSE arg[t].actor_id
      ]_vars

\* the session was created by a call without an actor id; a call that
\* names actor u1 has returned the same instance, still bound to the
\* default actor
C37_Witness ==
    \E t, u \in Threads :
        /\ settings.session_mode = "agentcore_memory"
        /\ op[t] = "get_or_create_agent" /\ op[u] = "get_or_create_agent"
        /\ arg[t].session_id = arg[u].session_id
        /\ arg[t].actor_id = None /\ arg[u].actor_id = "u1"
        /\ pc[t] = "done" /\ pc[u] = "done"
        /\ ret[t] = Ok(1) /\ ret[u] = Ok(1)
        /\ Len(instances) = 1
        /\ ActorOf(1) = "default_user"

\* C38: cleanup_session is a safe no-op on an unknown id and is
\* idempotent: it never raises; called for an id that is not registered it
\* leaves the table as it is; after it the id is not registered, so a
\* second call changes nothing more; and the entry of every other session
\* id is kept as it was.
C38_CleanupIdempotent ==
    [][\A t \in Threads :
        (pc[t] = "cs_body" /\ pc'[t] # "cs_body") =>
            LET s == arg[t].session_id IN
            /\ pc'[t] = "done"
            /\ ret'[t].raised = None
            /\ s \notin DOMAIN agents => (agents' = agents /\ removed' = removed)
            /\ s \notin DOMAIN agents'
            /\ DOMAIN agents' = DOMAIN agents \ {s}
            /\ \A k \in DOMAIN agents' : agents'[k] = agents[k]
            /\ instances' = instances
            /\ lock' = None
      ]_vars

\* two calls for s1, which is not registered, have returned; the entry of
\* s2 is still in the table
C38_Witness ==
    \E t, u \in Threads :
        /\ t # u
        /\ op[t] = "cleanup_session" /\ op[u] = "cleanup_session"
        /\ arg[t].session_id = "s1" /\ arg[u].session_id = "s1"
        /\ pc[t] = "done" /\ pc[u] = "done"
        /\ DOMAIN agents = {"s2"}

(***************************************************************************)
(* Claims about a session after a failure of the backend.                  *)
(***************************************************************************)
\* C39: a failure of the backend during a turn, batch or streaming, does
\* not unregister the session: the failing step and the answer that
\* follows leave the table and the instances as they are, the session id
\* still maps to the instance the turn ran on, and a later request with
\* that session id finds it registered and runs on the same instance
\* without a construction.
C39_FailureKeepsSession ==
    /\ [][\A t \in Workers :
            LET s == arg[t].session_id IN
            /\ (\/ InBackend(t) /\ pc'[t] = "raised"
                \/ pc[t] = "raised" /\ ret[t].raised = "BackendError"
                        /\ pc'[t] = "responded") =>
                    /\ agents' = agents
                    /\ instances' = instances
                    /\ s \in DOMAIN agents' /\ agents'[s] = agentRef[t]
            /\ (pc[t] = "goc_lock" /\ pc'[t] # "goc_lock" /\ s \in DOMAIN agents) =>
                    pc'[t] = "goc_return"
            /\ (pc[t] = "goc_return" /\ pc'[t] # "goc_return") =>
                    /\ agentRef'[t] = agents[s]
                    /\ instances' = instances
         ]_vars
    /\ [](\A t \in Workers :
            (pc[t] = "responded" /\ resp[t].error = "BackendError") =>
                resp[t].session_id \in DOMAIN agents)

\* a streaming request on h1 has failed in the backend; another request on
\* h1 is in the backend on the same instance, the only one constructed
C39_Witness ==
    \E t, u \in Workers :
        /\ pc[t] = "responded"
        /\ req[t] = Serving(TRUE)
        /\ resp[t].error = "BackendError" /\ resp[t].session_id = "h1"
        /\ pc[u] = "turn_backend" /\ arg[u].session_id = "h1"
        /\ agentRef[u] = 1 /\ agents["h1"] = 1
        /\ Len(instances) = 1

====
